---- MODULE Spec2Model ----
(***************************************************************************)
(* Runes indexer, indexer catch-up loop and pending-transaction watchdog   *)
(* of the power service, as state machines.                                *)
(*                                                                         *)
(*  Spec      : the runes indexer applying transactions to store + cache   *)
(*  SpecLoop  : the catch-up loop of both indexers (cursor, restarts)      *)
(*  SpecWd    : the watchdog reconciling submitted transactions            *)
(*                                                                         *)
(* Store and cache calls succeed in Spec (the claims checked there are     *)
(* about sequences of transactions); SpecLoop and SpecWd include failing   *)
(* store calls.  u128 amounts are kept to a scaled width (U128Bits) and    *)
(* arithmetic written with + and - in the source wraps, as in a build      *)
(* without overflow checks; a division by zero panics in every build.      *)
(***************************************************************************)
EXTENDS Integers, Sequences, FiniteSets, Bags, TLC

\* ------------------------------------------------------------------ bounds
MaxTx == 3          \* transactions the runes indexer processes in a behaviour
MaxInputs == 1      \* inputs per transaction
U128Bits == 3       \* width of a rune amount (u128, scaled)

U128Mod == 2 ^ U128Bits
Half == U128Mod \div 2

\* ordinals::Rune::first_rune_height(Network::Bitcoin)
first_rune_height == 840000
\* ordinals::Rune::RESERVED, scaled to TLC's integers
RESERVED == 1000000000
\* ordinals::Rune::minimum_at_height, as a threshold on the scaled rune number
minimum_at_height == 10
\* Runestone::COMMIT_CONFIRMATIONS
COMMIT_CONFIRMATIONS == 6

\* ------------------------------------------------------- generic helpers
RECURSIVE SeqSum(_)
SeqSum(s) == IF s = <<>> THEN 0 ELSE Head(s) + SeqSum(Tail(s))

Min(S) == CHOOSE x \in S : \A y \in S : x <= y
Max(S) == CHOOSE x \in S : \A y \in S : x >= y

\* u128 arithmetic as the build without overflow checks computes it
WrapAdd(a, b) == (a + b) % U128Mod
WrapSub(a, b) == (a - b + U128Mod) % U128Mod
\* u128::checked_add / checked_sub: -1 stands for None
checked_add(a, b) == IF a + b >= U128Mod THEN -1 ELSE a + b
checked_sub(a, b) == IF a < b THEN -1 ELSE a - b

\* ------------------------------------------------------------ chain data
Addresses == {"a1", "a2"}
\* output scripts: an address script, OP_RETURN + rune magic number,
\* OP_RETURN + other data, or a script that is neither
Scripts == Addresses \cup {"opret", "opdata", "raw"}

\* instructions.next() == Some(Ok(Op(OP_RETURN)))
IsOpReturn(s) == s \in {"opret", "opdata"}
\* Address::from_script(...).is_ok()
AddressOk(s) == s \in Addresses

NoId == <<0, 0>>
None == -1
NoTerms == -2

\* the (block, tx_n, txid) of the transaction processed at a height: one
\* rune transaction per block, after the coinbase
TxN == 1
TxidOf(block) == block

\* ordinals::Rune::reserved(block, tx), on the scaled rune numbers
reserved(block, tx) == RESERVED + (block - first_rune_height) * 4 + tx
is_reserved(rune) == rune >= RESERVED


\* ------------------------------------------------------------- variables
VARIABLES
    \* persistent store (db::Repo): tables as sets or bags of rows
    runes,              \* runes
    runes_utxos,        \* runes_utxos (a bag: the INSERT states no key)
    runes_balances,     \* runes_balances, unique by (address, rune)
    runes_log,          \* runes_log (a bag)
    \* key-value cache (cache::CacheRepo)
    cache_runes,        \* rune:{name}, rune_by_id:{block}:{tx}
    cache_utxos,        \* utxo:{txid}:{vout}:{rune}
    cache_balances,     \* balance:{address}:{rune}
    \* configuration
    disable_rune_log,
    filter_runes,
    runes_ids_watchlist,
    \* the chain as the runes indexer has walked it
    height,             \* height of the last block handed to extract_runestone
    processed,          \* number of transactions handed to extract_runestone
    chain_spent,        \* outpoints already spent by a processed transaction
    \* extract_runestone in progress
    pc,                 \* position in extract_runestone
    tx_info,            \* the transaction (TxInfo and its deciphered artifact)
    input_runes_amounts,
    allocated_runes,
    outcome,            \* how extract_runestone left the transaction
    runes_before,       \* the runes table when the transaction was picked up
    etching_allocations, \* per rune: amounts its etching allocated from edicts
    \* catch-up loop of the two indexers
    loop_pc,            \* position of each indexer in run, "off" when not running
    cursor,             \* last_indexed_block.height per indexer
    current_block, best_block,
    chain_tip,          \* the node's block count
    applied,            \* per indexer and height: times index_block applied it
    failures,           \* store and node calls that have failed so far
    restarts,           \* starts of an indexer after it stopped
    cursor_read_failed, \* per indexer: a start has read its cursor as Err
    fetch_failed,       \* per indexer: the height whose fetch failed last in
                        \* this run and has not been indexed since, else 0
    store_failed,       \* per indexer: the height applied last in this run
                        \* with a failing store call, else 0
    run_last,           \* per indexer: the height index_block applied last in
                        \* this run, 0 before the first

    \* watchdog
    wd_pc,              \* position of the watchdog in run / do_job / reconcile
    wd_list,            \* pending_txs of the tick, the part not yet visited
    wd_local,           \* tx, request, trading_pair and lp held by the handler
    dbtx,               \* the open store transaction: staged writes, aborted
    submitted_txs,      \* submitted_txs, by tx_hash
    requests,           \* liquidity_change_requests, by req_uid
    trading_pair,       \* the trading_pair row
    provider,           \* the liquidity_providers row
    apply_count,        \* per tx_hash: committed writes of its pair / lp delta,
                        \* and reconciles of it that ended without a commit
    confirmations,      \* per tx_hash, as the node reports them
    aged,               \* tx hashes created an hour ago or more
    ticks,
    \* pool tx builder (tx::pool_txs::PoolTxBuilder)
    wallet_runes,       \* per address: its unspent runes_utxos rows of the
                        \* rune, in the order of the paginated query
    wallet_btc,         \* per address: its btc utxos as the provider lists them
    locked_utxos,       \* per address: the outpoints the cache holds as locked
    cache_writer,       \* the build holding the write guard of the cache
    build,              \* per build: its parameters, position and context
    \* etching tx builder (tx::runes_txs::RunesTxBuilder)
    commit_args,        \* the arguments of a create_commitment_tx call
    commit_tx,          \* what the call returned
    \* BTC indexer (indexer::btc_indexer::BtcIndexer)
    btc_chain,          \* the blocks of the node, each a sequence of txs
    btc_utxos,          \* btc_utxos (a bag: the INSERT states no key)
    btc_watchlist,      \* btc_watchlist: balance per watched address
    btc_balances,       \* BtcIndexCache.btc_balances of the running indexer
    btc_run,            \* the run: cursor, current_block, position, counters
    \* cancellation (tokio_util CancellationToken) and the run loops
    stop_signal,        \* per process: its token is cancelled
    stop_tasks,         \* per task: position, timer of its select, height
    stop_tip            \* height of the node

storeVars == <<runes, runes_utxos, runes_balances, runes_log,
               cache_runes, cache_utxos, cache_balances>>
configVars == <<disable_rune_log, filter_runes, runes_ids_watchlist>>
txVars == <<height, processed, chain_spent, pc, tx_info, input_runes_amounts,
            allocated_runes, outcome, runes_before, etching_allocations>>
loopVars == <<loop_pc, cursor, current_block, best_block, chain_tip, applied,
              failures, restarts, cursor_read_failed, fetch_failed, store_failed, run_last>>
wdVars == <<wd_pc, wd_list, wd_local, dbtx, submitted_txs, requests,
            trading_pair, provider, apply_count, confirmations, aged, ticks>>
psbtVars == <<wallet_runes, wallet_btc, locked_utxos, cache_writer, build>>
commitVars == <<commit_args, commit_tx>>
btcVars == <<btc_chain, btc_utxos, btc_watchlist, btc_balances, btc_run>>
stopVars == <<stop_signal, stop_tasks, stop_tip>>
vars == <<storeVars, configVars, txVars, loopVars, wdVars, psbtVars, commitVars,
          btcVars, stopVars>>

\* ---------------------------------------------- store and cache as a value
\* The operators below take and return the store and cache as one record st,
\* so that a handler's calls compose in the order the source makes them.
Store == [runes |-> runes, utxos |-> runes_utxos, balances |-> runes_balances,
          log |-> runes_log, crunes |-> cache_runes, cutxos |-> cache_utxos,
          cbalances |-> cache_balances, panic |-> FALSE]

RECURSIVE BagSum(_, _)
\* sum of B[r] over the rows r of S
BagSum(S, B) ==
    IF S = {} THEN 0
    ELSE LET r == CHOOSE x \in S : TRUE IN B[r] + BagSum(S \ {r}, B)

BagAdd(B, r) == B (+) SetToBag({r})

\* get_rune as a lookup on a column that never matches the name
get_rune_never_matches(st, rune) == {}

\* Repo::get_rune: fetch_one, an error when no row matches
get_rune(st, rune) == {r \in st.runes : r.rune = rune}
\* Repo::get_rune_by_id
db_get_rune_by_id(st, id) == {r \in st.runes : r.block = id[1] /\ r.tx_id = id[2]}
\* Repo::insert_rune
insert_rune(st, row) == [st EXCEPT !.runes = @ \cup {row}]
\* Repo::update_rune_mint
update_rune_mint_row(st, rune, mints, minted, in_circulation) ==
    [st EXCEPT !.runes = {IF r.rune = rune
                          THEN [r EXCEPT !.mints = mints, !.minted = minted,
                                         !.in_circulation = in_circulation]
                          ELSE r : r \in @}]
\* Repo::update_rune_burned
update_rune_burned(st, rune, burned, in_circulation) ==
    [st EXCEPT !.runes = {IF r.rune = rune
                          THEN [r EXCEPT !.burned = burned,
                                         !.in_circulation = in_circulation]
                          ELSE r : r \in @}]
\* Repo::insert_rune_log
insert_rune_log(st, entry) == [st EXCEPT !.log = BagAdd(@, entry)]
\* Repo::insert_rune_utxo
insert_rune_utxo(st, row) == [st EXCEPT !.utxos = BagAdd(@, row)]
\* Repo::spent_rune_utxo: UPDATE ... WHERE tx_hash, output_n, rune
db_spent_rune_utxo(st, rune, tx_hash, vout) ==
    LET f(r) == IF r.tx_hash = tx_hash /\ r.output_n = vout /\ r.rune = rune
                THEN [r EXCEPT !.spend = TRUE] ELSE r
        img == {f(r) : r \in DOMAIN st.utxos}
    IN  [st EXCEPT !.utxos =
            [x \in img |-> BagSum({r \in DOMAIN st.utxos : f(r) = x}, @)]]
\* Repo::insert_runes_balance: ON CONFLICT DO NOTHING
insert_runes_balance(st, rune, address, balance) ==
    IF \E b \in st.balances : b.rune = rune /\ b.address = address THEN st
    ELSE [st EXCEPT !.balances =
            @ \cup {[address |-> address, rune |-> rune, balance |-> balance]}]
\* Repo::update_runes_balance: UPDATE, no row is no change
update_runes_balance(st, rune, address, balance) ==
    [st EXCEPT !.balances = {IF b.rune = rune /\ b.address = address
                             THEN [b EXCEPT !.balance = balance]
                             ELSE b : b \in @}]
\* Repo::get_rune_balance
db_get_rune_balance(st, address, rune) ==
    {b \in st.balances : b.rune = rune /\ b.address = address}

\* CacheRepo (keys of the key-value cache; a set replaces the key's value)
cache_get_rune(st, rune) == {e \in st.crunes : e.rune = rune}
cache_set_rune(st, e) ==
    [st EXCEPT !.crunes = {x \in @ : x.rune # e.rune} \cup {e}]
cache_get_rune_name(st, id) ==
    {e.rune : e \in {x \in st.crunes : x.block = id[1] /\ x.tx_id = id[2]}}
cache_get_balance(st, address, rune) ==
    {b \in st.cbalances : b.rune = rune /\ b.address = address}
cache_set_balance(st, address, rune, balance) ==
    [st EXCEPT !.cbalances =
        {b \in @ : ~(b.rune = rune /\ b.address = address)}
        \cup {[address |-> address, rune |-> rune, balance |-> balance]}]
cache_get_runes_utxos(st, tx_hash, vout) ==
    {u \in st.cutxos : u.tx_hash = tx_hash /\ u.output_n = vout}
cache_set_runes_utxo(st, u) ==
    [st EXCEPT !.cutxos =
        {x \in @ : ~(x.tx_hash = u.tx_hash /\ x.output_n = u.output_n
                     /\ x.rune = u.rune)} \cup {u}]

Only(S) == CHOOSE x \in S : TRUE

\* ---------------------------------------------------- service::entities
NullRune == [rune |-> 0, block |-> 0, tx_id |-> 0, mints |-> 0, premine |-> 0,
             burned |-> 0, minted |-> 0, in_circulation |-> 0, terms |-> NoTerms]

\* RuneEntity::add_mint
add_mint(e, amount) ==
    [e EXCEPT !.mints = @ + 1,
              !.in_circulation = WrapAdd(@, amount),
              !.minted = IF checked_add(@, amount) = None THEN @
                         ELSE checked_add(@, amount)]

\* RuneEntity::burn
burn(e, amount) ==
    [e EXCEPT !.mints = @ + 1,
              !.burned = WrapAdd(@, amount),
              !.in_circulation = IF checked_sub(@, amount) = None THEN @
                                 ELSE checked_sub(@, amount)]

\* Balance::increase
increase(balance, amount) ==
    IF checked_add(balance, amount) = None THEN balance
    ELSE checked_add(balance, amount)

\* Balance::decrease: None when the balance does not cover the amount
decrease(balance, amount) == checked_sub(balance, amount)

\* ------------------------------------------------- service::StateProvider
\* StateProvider::get_rune_by_name
get_rune_by_name(st, rune) ==
    IF cache_get_rune(st, rune) # {}
    THEN [st |-> st, ok |-> TRUE, rune |-> Only(cache_get_rune(st, rune))]
    ELSE IF get_rune(st, rune) = {}
    THEN [st |-> st, ok |-> FALSE, rune |-> NullRune]
    ELSE [st |-> cache_set_rune(st, Only(get_rune(st, rune))), ok |-> TRUE,
          rune |-> Only(get_rune(st, rune))]

\* StateProvider::store_new_rune
store_new_rune(st, rune_row) == cache_set_rune(insert_rune(st, rune_row), rune_row)

\* StateProvider::burn_rune
burn_rune(st, rune, amount) ==
    LET g == get_rune_by_name(st, rune)
        e == burn(g.rune, amount)
    IN  IF ~g.ok THEN g.st
        ELSE update_rune_burned(cache_set_rune(g.st, e), rune, e.burned,
                                e.in_circulation)

\* StateProvider::update_rune_mint
update_rune_mint(st, e) ==
    update_rune_mint_row(cache_set_rune(st, e), e.rune, e.mints, e.minted,
                         e.in_circulation)

\* StateProvider::get_rune_balance: the cache, else the store; both store
\* branches unwrap get_rune_by_name
get_rune_balance(st, rune, address) ==
    IF cache_get_balance(st, address, rune) # {}
    THEN [st |-> st, balance |-> Only(cache_get_balance(st, address, rune)).balance]
    ELSE LET g == get_rune_by_name(st, rune)
             rows == db_get_rune_balance(st, address, rune)
         IN  IF ~g.ok THEN [st |-> [st EXCEPT !.panic = TRUE], balance |-> 0]
             ELSE [st |-> g.st,
                   balance |-> IF rows # {} THEN Only(rows).balance ELSE 0]

\* StateProvider::store_new_runes_utxo
store_new_runes_utxo(st, utxo, action) ==
    LET g  == get_rune_balance(st, utxo.rune, utxo.address)
        s1 == IF g.balance = 0
              THEN insert_runes_balance(g.st, utxo.rune, utxo.address, 0)
              ELSE g.st
        nb == increase(g.balance, utxo.amount)
        s2 == update_runes_balance(s1, utxo.rune, utxo.address, nb)
        s3 == cache_set_balance(s2, utxo.address, utxo.rune, nb)
        s4 == insert_rune_utxo(s3, utxo)
        s5 == cache_set_runes_utxo(s4, utxo)
    IN  IF g.st.panic THEN g.st
        ELSE IF disable_rune_log THEN s5
        ELSE insert_rune_log(s5, [tx_hash |-> utxo.tx_hash, rune |-> utxo.rune,
                                  address |-> utxo.address,
                                  value |-> utxo.amount, action |-> action])

\* the order in which the cache hands back the rune rows of an outpoint
PickUtxo(todo, ord) ==
    IF ord = "asc" THEN CHOOSE u \in todo : \A v \in todo : u.rune <= v.rune
    ELSE CHOOSE u \in todo : \A v \in todo : u.rune >= v.rune

RECURSIVE spent_loop(_, _, _, _, _, _, _)
\* the loop of StateProvider::spent_rune_utxo over the cached rows
spent_loop(st, todo, res, parent_txid, vout, new_tx_id, ord) ==
    IF todo = {} \/ st.panic THEN [st |-> st, res |-> res]
    ELSE
      LET u  == PickUtxo(todo, ord)
          s1 == db_spent_rune_utxo(st, u.rune, parent_txid, vout)
          u2 == [u EXCEPT !.spend = TRUE]
          s2 == cache_set_runes_utxo(s1, u2)
          g  == get_rune_balance(s2, u.rune, u.address)
          nb == decrease(g.balance, u.amount)
          s3 == update_runes_balance(g.st, u.rune, u.address, nb)
          s4 == cache_set_balance(s3, u.address, u.rune, nb)
      IN  IF g.st.panic THEN [st |-> g.st, res |-> res]
          ELSE IF nb = None
          THEN spent_loop(g.st, todo \ {u}, res, parent_txid, vout, new_tx_id, ord)
          ELSE IF disable_rune_log
          THEN [st |-> s4, res |-> Append(res, u2)]
          ELSE spent_loop(
                 insert_rune_log(s4, [tx_hash |-> new_tx_id, rune |-> u.rune,
                                      address |-> u.address, value |-> u.amount,
                                      action |-> "expence"]),
                 todo \ {u}, Append(res, u2), parent_txid, vout, new_tx_id, ord)

\* StateProvider::spent_rune_utxo: an empty res stands for None
spent_rune_utxo(st, input, new_tx_id, ord) ==
    spent_loop(st, cache_get_runes_utxos(st, input[1], input[2]), <<>>,
               input[1], input[2], new_tx_id, ord)

\* ------------------------------------------------ indexer::RunesIndexer
\* HashMap<String, u128>: a function from rune names to amounts
EmptyMap == [k \in {} |-> 0]
MapGet(m, k) == IF k \in DOMAIN m THEN m[k] ELSE 0
MapSet(m, k, v) == [x \in DOMAIN m \cup {k} |-> IF x = k THEN v ELSE m[x]]

\* vouts count from 0; the script of output vout
ScriptAt(tx, vout) == tx.outs[vout + 1]
OutputLen(tx) == Len(tx.outs)

\* get_non_opreturn_outputs
get_non_opreturn_outputs(tx) ==
    {v \in 0..(OutputLen(tx) - 1) : ~IsOpReturn(ScriptAt(tx, v))}

\* get_change_output
get_change_output(tx, pointer) ==
    IF pointer # None
    THEN IF pointer > OutputLen(tx) THEN None ELSE pointer
    ELSE IF get_non_opreturn_outputs(tx) = {} THEN None
    ELSE Min(get_non_opreturn_outputs(tx))

\* extract_premine_address: without a pointer, the first OP_RETURN output with
\* the magic number that follows an OP_RETURN output without it
extract_premine_address(tx) ==
    LET found == {v \in 0..(OutputLen(tx) - 1) :
                    /\ ScriptAt(tx, v) = "opret"
                    /\ \E w \in 0..(v - 1) : ScriptAt(tx, w) = "opdata"}
    IN  IF tx.pointer # None
        THEN IF tx.pointer > OutputLen(tx) THEN None ELSE tx.pointer
        ELSE IF found = {} THEN None ELSE Min(found)

\* validate_commitment: some input reveals the commitment in a tapscript, spends
\* a taproot output and is buried deep enough (Some(_) as TRUE)
validate_commitment(tx) ==
    \E i \in 1..Len(tx.commits) :
        /\ tx.commits[i].taproot
        /\ tx.block - tx.commits[i].height + 1 >= COMMIT_CONFIRMATIONS

\* allocated_runes[vout].entry(rune).or_default().<field> += amount
Allocation(vout, rune) ==
    [vout |-> vout, rune |-> rune, edict |-> 0, mint |-> 0, etching |-> 0]
AllocGet(al, vout, rune) ==
    IF \E a \in al : a.vout = vout /\ a.rune = rune
    THEN CHOOSE a \in al : a.vout = vout /\ a.rune = rune
    ELSE Allocation(vout, rune)
AllocAdd(al, vout, rune, field, amount) ==
    LET cur == AllocGet(al, vout, rune)
        new == CASE field = "edict" -> [cur EXCEPT !.edict = WrapAdd(@, amount)]
                 [] field = "mint" -> [cur EXCEPT !.mint = WrapAdd(@, amount)]
                 [] OTHER -> [cur EXCEPT !.etching = WrapAdd(@, amount)]
    IN  (al \ {cur}) \cup {new}

RECURSIVE AllocSplit(_, _, _, _, _)
\* the split of an amount over a set of outputs
AllocSplit(al, vouts, rune, field, amount) ==
    IF vouts = {} THEN al
    ELSE LET v == Min(vouts)
         IN  AllocSplit(AllocAdd(al, v, rune, field, amount), vouts \ {v}, rune,
                        field, amount)

\* one edict's allocation; panic is the division by zero of a split over no
\* output, or an index past the outputs
ApplyEdict(al, tx, rune, field, edict) ==
    LET outs == get_non_opreturn_outputs(tx)
    IN  IF edict.output = OutputLen(tx)
        THEN IF outs = {} THEN [al |-> al, panic |-> TRUE]
             ELSE [al |-> AllocSplit(al, outs, rune, field,
                                     edict.amount \div Cardinality(outs)),
                   panic |-> FALSE]
        ELSE IF edict.output > OutputLen(tx) THEN [al |-> al, panic |-> TRUE]
        ELSE [al |-> AllocAdd(al, edict.output, rune, field, edict.amount),
              panic |-> FALSE]

RECURSIVE EtchingEdicts(_, _, _, _)
\* the loop of handle_rune_etching over the edicts with id 0:0
EtchingEdicts(al, tx, rune, edicts) ==
    IF edicts = <<>> THEN [al |-> al, ok |-> FALSE, panic |-> FALSE]
    ELSE IF Head(edicts).id # NoId
    THEN EtchingEdicts(al, tx, rune, Tail(edicts))
    ELSE LET r == ApplyEdict(al, tx, rune, "etching", Head(edicts))
             rest == EtchingEdicts(r.al, tx, rune, Tail(edicts))
         IN  IF r.panic THEN [al |-> al, ok |-> FALSE, panic |-> TRUE]
             ELSE [al |-> rest.al, ok |-> TRUE, panic |-> rest.panic]

\* the rune an etching names, or the reserved rune of its position
EtchedRune(tx) ==
    IF Only(tx.etching).rune # None THEN Only(tx.etching).rune
    ELSE reserved(tx.block, tx.tx_n)

\* handle_rune_etching
handle_rune_etching(st, tx, al) ==
    LET rune == EtchedRune(tx)
        premine == Only(tx.etching).premine
        rune_row == [rune |-> rune, block |-> tx.block, tx_id |-> tx.tx_n,
                     mints |-> 0, premine |-> premine, burned |-> 0,
                     minted |-> premine, in_circulation |-> premine,
                     terms |-> Only(tx.etching).terms]
        s1 == store_new_rune(st, rune_row)
        vout == extract_premine_address(tx)
        ed == EtchingEdicts(al, tx, rune, tx.edicts)
        no(s) == [st |-> s, al |-> al, ok |-> FALSE, panic |-> FALSE]
    IN  IF Only(tx.etching).rune # None /\ ~validate_commitment(tx) THEN no(st)
        ELSE IF Only(tx.etching).rune # None
                /\ (rune < minimum_at_height \/ is_reserved(rune)) THEN no(st)
        ELSE IF get_rune(st, rune) # {} THEN no(st)
        ELSE IF premine = 0
        THEN [st |-> s1, al |-> al, ok |-> TRUE, panic |-> FALSE]
        ELSE IF vout # None
        THEN [st |-> s1, al |-> AllocAdd(al, vout, rune, "etching", premine),
              ok |-> TRUE, panic |-> vout >= OutputLen(tx)]
        ELSE IF tx.edicts = <<>> THEN no(s1)
        ELSE [st |-> s1, al |-> ed.al, ok |-> ed.ok, panic |-> ed.panic]

\* handle_mint without the test of the watchlist
handle_mint_unfiltered(st, tx, al) ==
    LET rows == db_get_rune_by_id(st, tx.mint)
        rune_info == Only(rows)
        amount == IF rune_info.terms = None THEN 0 ELSE rune_info.terms
        vout == get_change_output(tx, tx.pointer)
        minted == add_mint(rune_info, amount)
        no == [st |-> st, al |-> al, ok |-> FALSE, panic |-> FALSE]
    IN  IF rows = {} THEN no
        ELSE IF rune_info.terms = NoTerms THEN no
        ELSE IF vout = None THEN no
        ELSE [st |-> update_rune_mint(st, minted),
              al |-> AllocAdd(al, vout, rune_info.rune, "mint", amount),
              ok |-> TRUE, panic |-> vout >= OutputLen(tx)]
\* handle_mint
handle_mint(st, tx, al) ==
    LET rows == db_get_rune_by_id(st, tx.mint)
        rune_info == Only(rows)
        amount == IF rune_info.terms = None THEN 0 ELSE rune_info.terms
        vout == get_change_output(tx, tx.pointer)
        minted == add_mint(rune_info, amount)
        no == [st |-> st, al |-> al, ok |-> FALSE, panic |-> FALSE]
    IN  IF filter_runes /\ tx.mint \notin runes_ids_watchlist THEN no
        ELSE IF rows = {} THEN no
        ELSE IF rune_info.terms = NoTerms THEN no
        ELSE IF vout = None THEN no
        ELSE [st |-> update_rune_mint(st, minted),
              al |-> AllocAdd(al, vout, rune_info.rune, "mint", amount),
              ok |-> TRUE, panic |-> vout >= OutputLen(tx)]

RECURSIVE handle_rune_edicts(_, _, _, _)
\* handle_rune_edicts
handle_rune_edicts(st, tx, edicts, al) ==
    IF edicts = <<>> THEN [al |-> al, ok |-> TRUE, panic |-> FALSE]
    ELSE
      LET edict == Head(edicts)
          names == cache_get_rune_name(st, edict.id)
          r == ApplyEdict(al, tx, Only(names), "edict", edict)
      IN  IF edict.id = NoId THEN handle_rune_edicts(st, tx, Tail(edicts), al)
          ELSE IF filter_runes /\ edict.id \notin runes_ids_watchlist
          THEN [al |-> al, ok |-> FALSE, panic |-> FALSE]
          ELSE IF names = {} THEN [al |-> al, ok |-> FALSE, panic |-> FALSE]
          ELSE IF r.panic THEN [al |-> al, ok |-> FALSE, panic |-> TRUE]
          ELSE handle_rune_edicts(st, tx, Tail(edicts), r.al)

\* total_out of apply_allocations: the edict amounts allocated per rune
TotalOut(al, rune) ==
    LET F[S \in SUBSET al] ==
          IF S = {} THEN 0
          ELSE LET a == CHOOSE x \in S : TRUE
               IN  WrapAdd(F[S \ {a}], IF a.rune = rune THEN a.edict ELSE 0)
    IN  F[al]

\* the row apply_allocations writes for an output
RuneUtxo(tx, vout, rune, amount) ==
    [block |-> tx.block, tx_id |-> tx.tx_n, tx_hash |-> tx.txid,
     output_n |-> vout, rune |-> rune, address |-> ScriptAt(tx, vout),
     amount |-> amount, spend |-> FALSE]

RECURSIVE StoreAllocated(_, _, _, _)
\* the rows of one output: store_new_runes_utxo per allocated rune, and the
\* edict part taken off the unallocated amount
StoreAllocated(st, tx, unallocated, todo) ==
    IF todo = {} \/ st.panic THEN [st |-> st, unallocated |-> unallocated]
    ELSE
      LET a == CHOOSE x \in todo : \A y \in todo : x.rune <= y.rune
          action == IF a.etching > 0 \/ a.mint > 0 THEN "etching" ELSE "income"
          utxo == RuneUtxo(tx, a.vout, a.rune,
                           WrapAdd(WrapAdd(a.edict, a.mint), a.etching))
      IN  StoreAllocated(store_new_runes_utxo(st, utxo, action), tx,
                         MapSet(unallocated, a.rune,
                                WrapSub(MapGet(unallocated, a.rune), a.edict)),
                         todo \ {a})

RECURSIVE StoreOutputs(_, _, _, _, _)
\* the loop of apply_allocations over the outputs, from vout on
StoreOutputs(st, tx, unallocated, al, vout) ==
    LET here == {a \in al : a.vout = vout}
        r == StoreAllocated(st, tx, unallocated, here)
    IN  IF vout >= OutputLen(tx) \/ st.panic
        THEN [st |-> st, unallocated |-> unallocated, ok |-> TRUE]
        ELSE IF here = {} THEN StoreOutputs(st, tx, unallocated, al, vout + 1)
        ELSE IF ~AddressOk(ScriptAt(tx, vout))
        THEN [st |-> st, unallocated |-> unallocated, ok |-> FALSE]
        ELSE StoreOutputs(r.st, tx, r.unallocated, al, vout + 1)

RECURSIVE StoreChange(_, _, _, _, _)
\* the unallocated amounts that are not zero, credited to the change output
StoreChange(st, tx, unallocated, vout, todo) ==
    IF todo = {} \/ st.panic THEN st
    ELSE LET rune == Min(todo)
         IN  StoreChange(
               IF unallocated[rune] = 0 THEN st
               ELSE store_new_runes_utxo(
                      st, RuneUtxo(tx, vout, rune, unallocated[rune]), "income"),
               tx, unallocated, vout, todo \ {rune})

\* apply_allocations without the rows of the change output
apply_allocations_no_change(st, tx, unalocated_runes, al) ==
    LET outs == StoreOutputs(st, tx, unalocated_runes, al, 0)
        vout == get_change_output(tx, tx.pointer)
    IN  IF \E a \in al : TotalOut(al, a.rune) > MapGet(unalocated_runes, a.rune)
        THEN [st |-> st, ok |-> FALSE]
        ELSE IF outs.st.panic \/ ~outs.ok THEN [st |-> outs.st, ok |-> FALSE]
        ELSE IF vout = None THEN [st |-> outs.st, ok |-> FALSE]
        ELSE IF vout >= OutputLen(tx)
        THEN [st |-> [outs.st EXCEPT !.panic = TRUE], ok |-> FALSE]
        ELSE IF ~AddressOk(ScriptAt(tx, vout)) THEN [st |-> outs.st, ok |-> FALSE]
        ELSE [st |-> outs.st, ok |-> TRUE]
\* apply_allocations
apply_allocations(st, tx, unalocated_runes, al) ==
    LET outs == StoreOutputs(st, tx, unalocated_runes, al, 0)
        vout == get_change_output(tx, tx.pointer)
    IN  IF \E a \in al : TotalOut(al, a.rune) > MapGet(unalocated_runes, a.rune)
        THEN [st |-> st, ok |-> FALSE]
        ELSE IF outs.st.panic \/ ~outs.ok THEN [st |-> outs.st, ok |-> FALSE]
        ELSE IF vout = None THEN [st |-> outs.st, ok |-> FALSE]
        ELSE IF vout >= OutputLen(tx)
        THEN [st |-> [outs.st EXCEPT !.panic = TRUE], ok |-> FALSE]
        ELSE IF ~AddressOk(ScriptAt(tx, vout)) THEN [st |-> outs.st, ok |-> FALSE]
        ELSE [st |-> StoreChange(outs.st, tx, outs.unallocated, vout,
                                 DOMAIN outs.unallocated),
              ok |-> TRUE]

RECURSIVE BurnEach(_, _, _)
BurnEach(st, amounts, todo) ==
    IF todo = {} THEN st
    ELSE LET rune == Min(todo)
         IN  BurnEach(burn_rune(st, rune, amounts[rune]), amounts, todo \ {rune})

\* burn_all_inputs
burn_all_inputs(st, amounts) == BurnEach(st, amounts, DOMAIN amounts)

RECURSIVE AddAmounts(_, _)
AddAmounts(amounts, utxo_list) ==
    IF utxo_list = <<>> THEN amounts
    ELSE LET u == Head(utxo_list)
         IN  AddAmounts(MapSet(amounts, u.rune,
                               WrapAdd(MapGet(amounts, u.rune), u.amount)),
                        Tail(utxo_list))

RECURSIVE collect_loop(_, _, _, _, _)
collect_loop(st, ins, txid, ord, amounts) ==
    IF ins = <<>> \/ st.panic THEN [st |-> st, amounts |-> amounts]
    ELSE LET r == spent_rune_utxo(st, Head(ins), txid, ord)
         IN  collect_loop(r.st, Tail(ins), txid, ord, AddAmounts(amounts, r.res))

\* collect_and_spend_runes_inputs
collect_and_spend_runes_inputs(st, tx, ord) ==
    collect_loop(st, tx.ins, tx.txid, ord, EmptyMap)

\* --------------------------------------------------- transactions on chain
\* db::seed_data::reserved_rune (UNCOMMON GOODS), its name as a scaled number
SeedRune == [rune |-> 20, block |-> 1, tx_id |-> 0, mints |-> 0, premine |-> 0,
             burned |-> 0, minted |-> 0, in_circulation |-> 0, terms |-> 1]

NoTx == [block |-> 0, tx_n |-> 0, txid |-> 0, outs |-> <<>>, ins |-> <<>>,
         commits |-> <<>>, artifact |-> "none", etching |-> {}, mint |-> <<>>,
         pointer |-> None, edicts |-> <<>>]

\* a transaction with its deciphered artifact (Runestone::decipher):
\* etching is {} or one Etching, mint is <<>> or a RuneId
Tx(block, outs, ins, artifact) ==
    [NoTx EXCEPT !.block = block, !.tx_n = TxN, !.txid = TxidOf(block),
                 !.outs = outs, !.ins = ins, !.artifact = artifact]

Etching(rune, premine, terms) ==
    [rune |-> rune, premine |-> premine, terms |-> terms]
Edict(id, amount, output) == [id |-> id, amount |-> amount, output |-> output]
Commit(taproot, h) == [taproot |-> taproot, height |-> h]

\* a reveal input with a relative lock one block shorter
etching_sequence_short == COMMIT_CONFIRMATIONS - 2

\* create_etching_tx: the nSequence of the reveal input, a relative lock in
\* blocks on the commitment output
etching_sequence == COMMIT_CONFIRMATIONS - 1

\* a block in which the reveal of a commitment mined at height h can be
\* mined: the relative lock of its input has run out
LockAllows(block, h) == block >= h + etching_sequence

\* outpoints that hold runes and that no processed transaction has spent
UnspentOutpoints ==
    {<<u.tx_hash, u.output_n>> : u \in cache_utxos} \ chain_spent
InputChoices ==
    {ins \in UNION {[1..n -> UnspentOutpoints] : n \in 0..MaxInputs} :
        \A i, j \in DOMAIN ins : i # j => ins[i] # ins[j]}

KnownIds == {<<r.block, r.tx_id>> : r \in runes}
UnknownId == <<2, 0>>

\* transactions without a runestone, and cenotaphs
PlainTxs(block) ==
    {Tx(block, <<"opret", "a1">>, ins, a) :
        ins \in InputChoices, a \in {"none", "cenotaph"}}

\* etchings: named 12 with a buried taproot commitment, and the ways an
\* etching is refused or only half carried out
EtchingTxs(block) ==
    LET deep == <<Commit(TRUE, block - etching_sequence)>>
        E(outs, ins, commits, rune, premine, terms, pointer, edicts) ==
          [Tx(block, outs, ins, "runestone") EXCEPT
              !.commits = commits, !.etching = {Etching(rune, premine, terms)},
              !.pointer = pointer, !.edicts = edicts]
    IN  {E(<<"opret", "a1">>, ins, deep, 12, 2, NoTerms, p, <<>>) :
            ins \in InputChoices, p \in {None, 0, 1}}
        \cup {E(<<"opret", "a1">>, <<>>, c, 12, 2, NoTerms, 1, <<>>) :
                c \in {<<>>, <<Commit(FALSE, block - COMMIT_CONFIRMATIONS + 1)>>,
                       <<Commit(TRUE, block - COMMIT_CONFIRMATIONS + 2)>>}}
        \cup {E(<<"opret", "a1">>, <<>>, deep, 5, 2, NoTerms, 1, <<>>),
              E(<<"opret", "a1">>, <<>>, deep, 12, 0, 1, None, <<>>),
              E(<<"opret", "a2">>, <<>>, <<>>, None, 2, NoTerms, 1, <<>>),
              E(<<"opret", "a1">>, <<>>, deep, 12, 3, NoTerms, None,
                <<Edict(NoId, Half, 1)>>),
              E(<<"opret">>, <<>>, deep, 12, 2, NoTerms, None,
                <<Edict(NoId, Half, 1)>>),
              E(<<"opdata", "opret", "a1">>, <<>>, deep, 12, 2, NoTerms, None,
                <<>>)}

\* mints of a known or unknown rune, alone or followed by an edict
MintTxs(block) ==
    LET M(outs, ins, id, edicts) ==
          [Tx(block, outs, ins, "runestone") EXCEPT !.mint = id,
                                                    !.edicts = edicts]
    IN  {M(<<"opret", "a1">>, ins, id, <<>>) :
            ins \in InputChoices, id \in KnownIds \cup {UnknownId}}
        \cup {M(<<"opret">>, <<>>, id, <<>>) : id \in KnownIds}
        \cup {M(<<"opret", "a1">>, <<>>, id, <<Edict(UnknownId, 1, 1)>>) :
                id \in KnownIds}

\* transfers: edicts on the runes of the inputs
EdictTxs(block) ==
    LET T(outs, ins, edicts) ==
          [Tx(block, outs, ins, "runestone") EXCEPT !.edicts = edicts]
    IN  UNION {
          {T(<<"opret", "a1">>, ins, <<Edict(id, 1, 1)>>),
           T(<<"opret", "a1", "a2">>, ins, <<Edict(id, 1, 2)>>),
           T(<<"opret", "a1", "a2">>, ins, <<Edict(id, Half, 2)>>),
           T(<<"opret", "a1", "a2">>, ins, <<Edict(id, 3, 3)>>),
           T(<<"opret", "a1", "a2">>, ins,
             <<Edict(id, Half, 1), Edict(id, Half, 2)>>),
           T(<<"opret", "a1", "raw">>, ins,
             <<Edict(id, 1, 1), Edict(id, 1, 2)>>),
           T(<<"opret">>, ins, <<Edict(id, 1, 1)>>)} :
          ins \in InputChoices \ {<<>>}, id \in KnownIds \cup {UnknownId}}
        \cup {T(<<"opret", "a1", "a2">>, ins, <<Edict(id, 2, 3)>>) :
                 ins \in InputChoices \ {<<>>}, id \in KnownIds}

TxMenu(block) ==
    PlainTxs(block) \cup EtchingTxs(block) \cup MintTxs(block) \cup EdictTxs(block)

\* ------------------------------------------------------ the runes indexer
\* the catch-up loop and the watchdog at rest
LoopIdle ==
    /\ loop_pc = "off" /\ cursor = <<>> /\ current_block = <<>>
    /\ best_block = <<>> /\ chain_tip = 0 /\ applied = <<>> /\ failures = 0
    /\ restarts = 0 /\ cursor_read_failed = <<>> /\ fetch_failed = <<>>
    /\ store_failed = <<>> /\ run_last = <<>>
WdIdle ==
    /\ wd_pc = "off" /\ wd_list = <<>> /\ wd_local = <<>> /\ dbtx = <<>>
    /\ submitted_txs = <<>> /\ requests = <<>>
    /\ trading_pair = <<>> /\ provider = <<>> /\ apply_count = <<>>
    /\ confirmations = <<>> /\ aged = {} /\ ticks = 0
PsbtIdle ==
    /\ wallet_runes = <<>> /\ wallet_btc = <<>> /\ locked_utxos = <<>>
    /\ cache_writer = "" /\ build = <<>>
    /\ commit_args = <<>> /\ commit_tx = <<>>
    /\ btc_chain = <<>> /\ btc_utxos = EmptyBag /\ btc_watchlist = <<>>
    /\ btc_balances = <<>> /\ btc_run = <<>>
    /\ stop_signal = <<>> /\ stop_tasks = <<>> /\ stop_tip = 0
TxIdle ==
    /\ pc = "idle" /\ tx_info = NoTx /\ input_runes_amounts = EmptyMap
    /\ allocated_runes = {} /\ outcome = "none" /\ runes_before = {}
    /\ processed = 0 /\ chain_spent = {}
    /\ etching_allocations = EmptyMap

\* the store after reset_db (schema and seed data) and a cold cache
InitStore ==
    /\ runes = {SeedRune}
    /\ runes_utxos = EmptyBag /\ runes_balances = {} /\ runes_log = EmptyBag
    /\ cache_runes = {} /\ cache_utxos = {} /\ cache_balances = {}

Init ==
    /\ InitStore
    /\ disable_rune_log \in BOOLEAN
    /\ filter_runes = FALSE /\ runes_ids_watchlist = {}
    /\ height \in {first_rune_height - 2, first_rune_height - 1}
    /\ TxIdle /\ LoopIdle /\ WdIdle /\ PsbtIdle

SetStore(st) ==
    /\ runes' = st.runes /\ runes_utxos' = st.utxos
    /\ runes_balances' = st.balances /\ runes_log' = st.log
    /\ cache_runes' = st.crunes /\ cache_utxos' = st.cutxos
    /\ cache_balances' = st.cbalances

\* the step of extract_runestone that follows the etching, the mint, the edicts
AfterEtching(tx) ==
    IF tx.mint # <<>> THEN "mint" ELSE IF tx.edicts # <<>> THEN "edicts"
    ELSE "apply"
AfterMint(tx) == IF tx.edicts # <<>> THEN "edicts" ELSE "apply"
AfterDecipher(tx) ==
    IF tx.artifact # "runestone" THEN "burn"
    ELSE IF ~filter_runes /\ tx.etching # {} THEN "etching"
    ELSE AfterEtching(tx)

\* extract_runestone up to Runestone::decipher: the activation height, then
\* collect_and_spend_runes_inputs
ExtractRunestone ==
    /\ pc \in {"idle", "done"} /\ processed < MaxTx
    /\ \E tx \in TxMenu(height + 1), ord \in {"asc", "desc"} :
         LET c == collect_and_spend_runes_inputs(Store, tx, ord)
         IN  /\ tx_info' = tx
             /\ height' = tx.block
             /\ processed' = processed + 1
             /\ chain_spent' = chain_spent \cup {tx.ins[i] : i \in DOMAIN tx.ins}
             /\ runes_before' = runes
             /\ allocated_runes' = {}
             /\ UNCHANGED etching_allocations
             /\ IF first_rune_height > tx.block
                THEN /\ pc' = "done" /\ outcome' = "skipped"
                     /\ input_runes_amounts' = EmptyMap
                     /\ UNCHANGED storeVars
                ELSE /\ SetStore(c.st)
                     /\ input_runes_amounts' = c.amounts
                     /\ outcome' = IF tx.artifact = "runestone" THEN "runestone"
                                   ELSE IF tx.artifact = "cenotaph" THEN "cenotaph"
                                   ELSE "no_runestone"
                     /\ pc' = IF c.st.panic THEN "panicked" ELSE AfterDecipher(tx)
    /\ UNCHANGED <<configVars, loopVars, wdVars, psbtVars, commitVars, btcVars, stopVars>>

\* the amounts allocated to outputs as etching amounts, as a number
EtchingTotal(al, rune) ==
    LET F[S \in SUBSET al] ==
          IF S = {} THEN 0
          ELSE LET a == CHOOSE x \in S : TRUE
               IN  F[S \ {a}] + (IF a.rune = rune THEN a.etching ELSE 0)
    IN  F[al]

\* handle_rune_etching and the branch of extract_runestone on its result
HandleRuneEtching ==
    /\ pc = "etching"
    /\ LET r == handle_rune_etching(Store, tx_info, allocated_runes)
           rune == EtchedRune(tx_info)
           from_edicts == /\ r.ok /\ ~r.panic
                          /\ Only(tx_info.etching).premine # 0
                          /\ extract_premine_address(tx_info) = None
       IN  /\ SetStore(r.st)
           /\ allocated_runes' = r.al
           /\ etching_allocations' =
                 IF from_edicts
                 THEN MapSet(etching_allocations, rune,
                             MapGet(etching_allocations, rune)
                               + EtchingTotal(r.al, rune))
                 ELSE etching_allocations
           /\ pc' = IF r.panic THEN "panicked"
                    ELSE IF r.ok THEN AfterEtching(tx_info) ELSE "burn"
           /\ outcome' = IF r.ok \/ r.panic THEN outcome ELSE "invalid_etching"
    /\ UNCHANGED <<configVars, loopVars, wdVars, psbtVars, commitVars, btcVars, stopVars, height, processed, chain_spent,
                   tx_info, input_runes_amounts, runes_before>>

\* handle_mint and the branch on its result
HandleMint ==
    /\ pc = "mint"
    /\ LET r == handle_mint(Store, tx_info, allocated_runes)
       IN  /\ SetStore(r.st)
           /\ allocated_runes' = r.al
           /\ pc' = IF r.panic THEN "panicked"
                    ELSE IF r.ok THEN AfterMint(tx_info) ELSE "burn"
           /\ outcome' = IF r.ok \/ r.panic THEN outcome ELSE "invalid_mint"
    /\ UNCHANGED <<configVars, loopVars, wdVars, psbtVars, commitVars, btcVars, stopVars, height, processed, chain_spent,
                   tx_info, input_runes_amounts, runes_before,
                   etching_allocations>>

\* handle_rune_edicts and the branch on its result
HandleRuneEdicts ==
    /\ pc = "edicts"
    /\ LET r == handle_rune_edicts(Store, tx_info, tx_info.edicts, allocated_runes)
       IN  /\ allocated_runes' = r.al
           /\ pc' = IF r.panic THEN "panicked"
                    ELSE IF r.ok THEN "apply" ELSE "burn"
           /\ outcome' = IF r.ok \/ r.panic THEN outcome ELSE "invalid_edicts"
    /\ UNCHANGED <<configVars, loopVars, wdVars, psbtVars, commitVars, btcVars, stopVars, storeVars, height, processed,
                   chain_spent, tx_info, input_runes_amounts, runes_before,
                   etching_allocations>>

\* apply_allocations and the branch on its result
ApplyAllocations ==
    /\ pc = "apply"
    /\ LET r == apply_allocations(Store, tx_info, input_runes_amounts,
                                  allocated_runes)
       IN  /\ SetStore(r.st)
           /\ pc' = IF r.st.panic THEN "panicked"
                    ELSE IF r.ok THEN "done" ELSE "burn"
           /\ outcome' = IF r.st.panic THEN outcome
                         ELSE IF r.ok THEN "applied" ELSE "not_applied"
    /\ UNCHANGED <<configVars, loopVars, wdVars, psbtVars, commitVars, btcVars, stopVars, height, processed, chain_spent,
                   tx_info, input_runes_amounts, allocated_runes, runes_before,
                   etching_allocations>>

\* burn_all_inputs, on every path of extract_runestone that rejects
BurnAllInputs ==
    /\ pc = "burn"
    /\ SetStore(burn_all_inputs(Store, input_runes_amounts))
    /\ pc' = "done"
    /\ UNCHANGED <<configVars, loopVars, wdVars, psbtVars, commitVars, btcVars, stopVars, height, processed, chain_spent,
                   tx_info, input_runes_amounts, allocated_runes, outcome,
                   runes_before, etching_allocations>>

Next ==
    \/ ExtractRunestone
    \/ HandleRuneEtching
    \/ HandleMint
    \/ HandleRuneEdicts
    \/ ApplyAllocations
    \/ BurnAllInputs

Spec == Init /\ [][Next]_vars

\* ---------------------------------------------------- claims on Spec
\* extract_runestone is between two transactions
AtRest == pc \in {"idle", "done"}
Rejected == {"invalid_etching", "invalid_mint", "invalid_edicts", "not_applied"}

RuneNames(rows) == {r.rune : r \in rows}
RowOf(rows, rune) == CHOOSE r \in rows : r.rune = rune

\* the RuneBalance row of (address, rune), 0 without a row
BalanceOf(address, rune) ==
    LET rows == {b \in runes_balances : b.address = address /\ b.rune = rune}
    IN  IF rows = {} THEN 0 ELSE Only(rows).balance

\* the sum of the amounts over the rows of a bag of RuneUtxo rows
AmountSum(B, rows) ==
    LET F[S \in SUBSET rows] ==
          IF S = {} THEN 0
          ELSE LET u == CHOOSE x \in S : TRUE
               IN  u.amount * B[u] + F[S \ {u}]
    IN  F[rows]

UnspentSum(address, rune) ==
    AmountSum(runes_utxos,
              {u \in DOMAIN runes_utxos :
                 u.address = address /\ u.rune = rune /\ ~u.spend})

\* the RuneUtxo rows the transaction in hand has written
RowsOfTx == {u \in DOMAIN runes_utxos : u.tx_hash = tx_info.txid}

\* the edict amounts allocated to outputs, as a sum that does not wrap
EdictTotal(al, rune) ==
    LET F[S \in SUBSET al] ==
          IF S = {} THEN 0
          ELSE LET a == CHOOSE x \in S : TRUE
               IN  F[S \ {a}] + (IF a.rune = rune THEN a.edict ELSE 0)
    IN  F[al]

\* every input amount is burned: burned += input, in_circulation -= input
InputsBurned ==
    \A rune \in DOMAIN input_runes_amounts :
        /\ rune \in RuneNames(runes) /\ rune \in RuneNames(runes_before)
        /\ RowOf(runes, rune).burned
             = RowOf(runes_before, rune).burned + input_runes_amounts[rune]
        /\ RowOf(runes, rune).in_circulation
             = RowOf(runes_before, rune).in_circulation
               - input_runes_amounts[rune]

\* C1: between transactions, for every (address, rune) the stored balance is
\* the sum of the amounts of the unspent RuneUtxo rows of that address and rune
C1_BalanceIsSumOfUnspent ==
    AtRest =>
        \A address \in Addresses, rune \in RuneNames(runes) :
            BalanceOf(address, rune) = UnspentSum(address, rune)

\* C2: for an accepted transaction and every rune, the edicts credit at most
\* what the inputs hold, and every output holds its allocation, the change
\* output holding the remainder (input minus edicts) on top of it, once
C2_EdictsConserveInputs ==
    (pc = "done" /\ outcome = "applied") =>
        \A rune \in RuneNames(runes) :
            LET in == MapGet(input_runes_amounts, rune)
                out == EdictTotal(allocated_runes, rune)
                change == get_change_output(tx_info, tx_info.pointer)
            IN  /\ out <= in
                /\ \A vout \in 0..(OutputLen(tx_info) - 1) :
                     LET a == AllocGet(allocated_runes, vout, rune)
                     IN  AmountSum(runes_utxos,
                                   {u \in RowsOfTx :
                                      u.output_n = vout /\ u.rune = rune})
                           = a.edict + a.mint + a.etching
                             + (IF vout = change THEN in - out ELSE 0)

\* the etching in hand went past handle_rune_etching as accepted
EtchingAccepted ==
    /\ tx_info.etching # {}
    /\ pc \in {"mint", "edicts", "apply", "burn", "done"}
    /\ outcome \notin {"skipped", "invalid_etching"}

\* C24: a named etching is accepted only with a taproot commitment for which
\* etching block - commitment block + 1 >= 6, and a reveal built by
\* create_etching_tx and mined where its relative lock allows passes
\* validate_commitment
C24_CommitmentGapAgrees ==
    (tx_info.etching # {} /\ Only(tx_info.etching).rune # None)
      => /\ EtchingAccepted
              => \E i \in 1..Len(tx_info.commits) :
                    /\ tx_info.commits[i].taproot
                    /\ tx_info.block - tx_info.commits[i].height + 1 >= 6
         /\ (\E i \in 1..Len(tx_info.commits) :
                 /\ tx_info.commits[i].taproot
                 /\ LockAllows(tx_info.block, tx_info.commits[i].height))
              => validate_commitment(tx_info)

\* C24 witness: a named etching revealed in the first block its lock allows,
\* 5 blocks above its commitment, has been accepted and its rune stored
C24_Witness ==
    /\ pc = "done" /\ tx_info.etching # {}
    /\ Only(tx_info.etching).rune # None
    /\ Len(tx_info.commits) = 1 /\ tx_info.commits[1].taproot
    /\ EtchingAccepted
    /\ tx_info.block - tx_info.commits[1].height = 5
    /\ \E r \in runes : r.rune = 12 /\ r.block = tx_info.block

\* C28: runes_utxos rows are unique by (tx_hash, output_n, rune): no two rows
\* carry the same key, also when the change output is an output that an
\* edict, a mint or a premine credits for the same rune
C28_RuneUtxoKeyUnique ==
    \A u \in DOMAIN runes_utxos :
       /\ runes_utxos[u] = 1
       /\ \A w \in DOMAIN runes_utxos :
             (w.tx_hash = u.tx_hash /\ w.output_n = u.output_n /\ w.rune = u.rune)
                => w = u

\* C29: when the inputs of a transaction are collected, every runes_utxos row
\* at an input's outpoint is marked spent, the balance of each holder is
\* lowered by the amounts of its rows, and the unallocated amount of each
\* rune is the sum of the amounts of those rows, with rune logging on or off
C29_EveryInputRowCollected ==
    [][( /\ processed' = processed + 1
         /\ outcome' # "skipped" /\ pc' # "panicked" )
       => LET at(u) == \E i \in DOMAIN tx_info'.ins :
                          /\ u.tx_hash = tx_info'.ins[i][1]
                          /\ u.output_n = tx_info'.ins[i][2]
              rows == {u \in DOMAIN runes_utxos : at(u)}
          IN  /\ \A u \in DOMAIN runes_utxos' : at(u) => u.spend
              /\ \A rune \in RuneNames(rows) \cup DOMAIN input_runes_amounts' :
                    MapGet(input_runes_amounts', rune)
                      = AmountSum(runes_utxos, {u \in rows : u.rune = rune})
              /\ \A u \in rows :
                    BalanceOf(u.address, u.rune)' =
                       BalanceOf(u.address, u.rune)
                         - AmountSum(runes_utxos,
                              {w \in rows : w.rune = u.rune
                                            /\ w.address = u.address})]_vars

\* a transaction whose one edict names output = number of outputs has been
\* applied: the amount was split over the non-OP_RETURN outputs
SplitDone ==
    /\ pc = "done" /\ outcome = "applied"
    /\ tx_info.etching = {} /\ tx_info.mint = <<>>
    /\ Len(tx_info.edicts) = 1
    /\ tx_info.edicts[1].output = OutputLen(tx_info)
    /\ allocated_runes # {}
SplitRune == Only({a.rune : a \in allocated_runes})
SplitShare ==
    tx_info.edicts[1].amount \div Cardinality(get_non_opreturn_outputs(tx_info))
\* what is left of the input amount after the shares
SplitRest ==
    MapGet(input_runes_amounts, SplitRune)
      - SplitShare * Cardinality(get_non_opreturn_outputs(tx_info))
\* the amount of the rune the rows of the transaction give an output, and the
\* number of those rows
CreditAt(v) ==
    AmountSum(runes_utxos,
              {u \in RowsOfTx : u.output_n = v /\ u.rune = SplitRune})
RowsAt(v) ==
    BagSum({u \in RowsOfTx : u.output_n = v /\ u.rune = SplitRune}, runes_utxos)

PremineOutput(tx) ==
    LET found == {v \in 0..(OutputLen(tx) - 1) :
                    /\ ~IsOpReturn(ScriptAt(tx, v))
                    /\ \E w \in 0..(v - 1) : ScriptAt(tx, w) = "opdata"}
    IN  IF tx.pointer # None THEN tx.pointer
        ELSE IF found = {} THEN None ELSE Min(found)

\* C31: an accepted etching with a premine credits the whole premine in one
\* row to the pointer output, or without a pointer to the first non-OP_RETURN
\* output after an OP_RETURN output without the magic number; without such
\* an output it is accepted only when it carries edicts with id (0,0)
C31_PremineGoesToPremineOutput ==
    ( /\ pc = "done" /\ EtchingAccepted
      /\ Only(tx_info.etching).premine > 0 )
      => LET rune == EtchedRune(tx_info)
             rows == {u \in RowsOfTx : u.rune = rune}
             vout == PremineOutput(tx_info)
         IN  IF vout # None
             THEN /\ BagSum(rows, runes_utxos) = 1
                  /\ \A u \in rows : /\ u.output_n = vout
                                      /\ u.amount = Only(tx_info.etching).premine
             ELSE \E i \in DOMAIN tx_info.edicts : tx_info.edicts[i].id = NoId

\* the Rune row a mint names, before the transaction and now
MintRowsBefore == {r \in runes_before : <<r.block, r.tx_id>> = tx_info.mint}
MintRowsNow == {r \in runes : <<r.block, r.tx_id>> = tx_info.mint}
\* a transaction that only mints (and may carry edicts) has been processed
MintDone ==
    /\ pc = "done" /\ tx_info.artifact = "runestone"
    /\ tx_info.mint # <<>> /\ tx_info.etching = {}
    /\ outcome # "skipped"

\* C32: a mint is accepted only for a stored rune with terms; an accepted mint
\* credits the terms' amount to the change output and to no other output, in
\* one row, raises mints by 1 and minted and in_circulation by that amount;
\* a mint that is not accepted leaves the rune as it was
C32_MintCreditsChangeOutput ==
    MintDone
      => IF outcome = "invalid_mint"
         THEN MintRowsNow = MintRowsBefore
         ELSE /\ MintRowsBefore # {}
              /\ Only(MintRowsBefore).terms # NoTerms
              /\ LET r0 == Only(MintRowsBefore)
                     r1 == Only(MintRowsNow)
                     amount == r0.terms
                     carried == MapGet(input_runes_amounts, r0.rune)
                     vout == get_change_output(tx_info, tx_info.pointer)
                     rows == {u \in RowsOfTx : u.rune = r0.rune}
                 IN  /\ r1.mints = r0.mints + 1
                     /\ r1.minted = r0.minted + amount
                     /\ r1.in_circulation = r0.in_circulation + amount
                     /\ \A u \in rows : u.output_n = vout
                     /\ AmountSum(runes_utxos, rows) = amount + carried
                     /\ carried = 0 => BagSum(rows, runes_utxos) = 1

\* what a transaction without an etching can hand out of a rune: the amounts
\* of its inputs and what its mint added to minted
Available(rune) ==
    LET r0 == {r \in runes_before : r.rune = rune}
        r1 == {r \in runes : r.rune = rune}
    IN  MapGet(input_runes_amounts, rune)
          + (IF r0 = {} \/ r1 = {} THEN 0
             ELSE Only(r1).minted - Only(r0).minted)

\* C33: no counter of a rune ever goes down where the code adds to it (minted
\* and burned never wrap, a mint raises in_circulation by what it raises
\* minted), and the outputs of an applied transaction hold, per rune, no more
\* than its inputs and its mint provide (no allocation wraps)
C33_AmountsNeverWrap ==
    /\ [][\A r \in runes, q \in runes' :
            q.rune = r.rune
              => /\ q.burned >= r.burned
                 /\ q.minted >= r.minted
                 /\ q.mints > r.mints /\ q.burned = r.burned
                      => q.in_circulation - r.in_circulation
                           = q.minted - r.minted]_vars
    /\ []( (pc = "done" /\ outcome = "applied" /\ tx_info.etching = {})
            => \A rune \in RuneNames(RowsOfTx) :
                  AmountSum(runes_utxos, {u \in RowsOfTx : u.rune = rune})
                    <= Available(rune) )

\* C34: between transactions every cached rune has the mints, minted, burned
\* and in_circulation of its store row, and a burn leaves mints and minted of
\* the rune as they were, in the cache and in the store
C34_CacheProjectsStore ==
    /\ [](AtRest => \A e \in cache_runes, r \in runes :
                       e.rune = r.rune
                         => /\ e.mints = r.mints /\ e.minted = r.minted
                            /\ e.burned = r.burned
                            /\ e.in_circulation = r.in_circulation)
    /\ [][pc = "burn"
           => /\ \A r \in runes, q \in runes' :
                    q.rune = r.rune
                      => q.mints = r.mints /\ q.minted = r.minted
              /\ \A e \in cache_runes, q \in cache_runes' :
                    q.rune = e.rune
                      => q.mints = e.mints /\ q.minted = e.minted]_vars

\* C7: an etching whose rune name is already in the store is never accepted,
\* and the store never holds two Rune rows of one name
C7_OneEtchingPerName ==
    /\ EtchingAccepted => EtchedRune(tx_info) \notin RuneNames(runes_before)
    /\ \A r1, r2 \in runes : r1.rune = r2.rune => r1 = r2

\* C7 witness: a second etching of a stored name has been rejected
C7_Witness ==
    /\ pc = "done" /\ outcome = "invalid_etching"
    /\ tx_info.etching # {}
    /\ EtchedRune(tx_info) \in RuneNames(runes_before)
    /\ Only(tx_info.etching).rune # None
    /\ validate_commitment(tx_info)
    /\ EtchedRune(tx_info) >= minimum_at_height

\* C8: a rejected transaction leaves no Rune row, no raised mints, minted or
\* in_circulation counter and no RuneUtxo row of its txid
C8_RejectionHasNoPartialEffect ==
    (pc = "done" /\ outcome \in Rejected) =>
        /\ RuneNames(runes) = RuneNames(runes_before)
        /\ \A r \in runes : \A b \in runes_before :
             r.rune = b.rune =>
                /\ r.mints <= b.mints /\ r.minted <= b.minted
                /\ r.in_circulation <= b.in_circulation
        /\ RowsOfTx = {}

\* C9: a cenotaph, or a transaction without a runestone, writes no RuneUtxo
\* row and burns every input amount
C9_CenotaphBurnsAll ==
    (pc = "done" /\ outcome \in {"cenotaph", "no_runestone"}) =>
        RowsOfTx = {} /\ InputsBurned

\* C11: between transactions, for every rune in_circulation + burned is
\* minted + premine + the amounts its etching allocated from edicts
C11_SupplyAccounting ==
    AtRest =>
        \A r \in runes :
            r.in_circulation + r.burned
              = r.minted + r.premine + MapGet(etching_allocations, r.rune)

\* C10: a transaction whose edicts allocate more of a rune than its inputs hold
\* writes no RuneUtxo row and burns every input amount
C10_OverspendRejected ==
    (/\ pc = "done" /\ outcome \in {"applied", "not_applied"}
     /\ \E a \in allocated_runes :
          EdictTotal(allocated_runes, a.rune)
            > MapGet(input_runes_amounts, a.rune)) =>
        RowsOfTx = {} /\ InputsBurned

\* ------------------------------------- the indexer with the rune filter
\* a second rune of the store, not on the watchlist
OtherRune == [SeedRune EXCEPT !.rune = 21, !.tx_id = 1]

\* the indexer started with the seed rune on the watchlist of its
\* configuration: filter_runes is set, and run has put the id of the rune's
\* row into runes_ids_watchlist
InitFilter ==
    /\ runes = {SeedRune, OtherRune}
    /\ runes_utxos = EmptyBag /\ runes_balances = {} /\ runes_log = EmptyBag
    /\ cache_runes = {} /\ cache_utxos = {} /\ cache_balances = {}
    /\ disable_rune_log = FALSE
    /\ filter_runes = TRUE
    /\ runes_ids_watchlist = {<<SeedRune.block, SeedRune.tx_id>>}
    /\ height = first_rune_height - 1
    /\ TxIdle /\ LoopIdle /\ WdIdle /\ PsbtIdle

\* extract_runestone with the filter on: handle_rune_etching is not called
NextFilter ==
    \/ ExtractRunestone
    \/ HandleMint
    \/ HandleRuneEdicts
    \/ ApplyAllocations
    \/ BurnAllInputs

SpecFilter == InitFilter /\ [][NextFilter]_vars

\* the transaction in hand mints or moves a rune that is not on the watchlist
NamesUnwatchedRune ==
    \/ tx_info.mint # <<>> /\ tx_info.mint \notin runes_ids_watchlist
    \/ \E i \in DOMAIN tx_info.edicts :
          /\ tx_info.edicts[i].id # NoId
          /\ tx_info.edicts[i].id \notin runes_ids_watchlist

MaxTip == 3         \* blocks the node comes to hold
MaxRestarts == 1    \* starts of an indexer after a stop
MaxFailures == 1    \* failing store or node calls in a behaviour

\* ETCHING_INDEXER_ID, BTC_INDEXER_ID
IndexerIds == {"rune_etchings", "btc_indexer"}
\* IndexersConfig: runes_starting_height, btc_starting_height
starting_height(id) == IF id = "rune_etchings" THEN 1 ELSE 0

InitLoop ==
    /\ loop_pc = [id \in IndexerIds |-> "off"]
    /\ cursor = [id \in IndexerIds |-> 0]
    /\ current_block = [id \in IndexerIds |-> 0]
    /\ best_block = [id \in IndexerIds |-> 0]
    /\ chain_tip \in 0..1
    /\ applied = [id \in IndexerIds |-> [h \in 1..MaxTip |-> 0]]
    /\ failures = 0 /\ restarts = 0
    /\ cursor_read_failed = [id \in IndexerIds |-> FALSE]
    /\ fetch_failed = [id \in IndexerIds |-> 0]
    /\ store_failed = [id \in IndexerIds |-> 0]
    /\ run_last = [id \in IndexerIds |-> 0]
    /\ InitStore /\ TxIdle /\ WdIdle /\ PsbtIdle /\ height = 0
    /\ disable_rune_log = FALSE /\ filter_runes = FALSE
    /\ runes_ids_watchlist = {}

LoopUnchanged == UNCHANGED <<storeVars, configVars, txVars, wdVars, psbtVars, commitVars, btcVars, stopVars>>

\* first_block taken from the configuration alone
first_block_from_config(last_block, start) == start

\* run, before the loop: first_block from the stored cursor and the
\* configured starting height
first_block(last_block, start) == IF last_block > start THEN last_block ELSE start

\* run up to the loop: the cursor read (Err(_) => 0), the first
\* get_block_count (an error returns), current_block = first_block + 1
Start(id) ==
    /\ loop_pc[id] = "off" /\ restarts < MaxRestarts + Cardinality(IndexerIds)
    /\ restarts' = restarts + 1
    /\ fetch_failed' = [fetch_failed EXCEPT ![id] = 0]
    /\ store_failed' = [store_failed EXCEPT ![id] = 0]
    /\ run_last' = [run_last EXCEPT ![id] = 0]
    /\ \/ /\ current_block' = [current_block EXCEPT
                                 ![id] = first_block(cursor[id],
                                                     starting_height(id)) + 1]
          /\ best_block' = [best_block EXCEPT ![id] = chain_tip]
          /\ loop_pc' = [loop_pc EXCEPT ![id] = "loop"]
          /\ UNCHANGED <<failures, cursor_read_failed>>
       \/ /\ failures < MaxFailures /\ failures' = failures + 1
          /\ current_block' = [current_block EXCEPT
                                 ![id] = first_block(0, starting_height(id)) + 1]
          /\ best_block' = [best_block EXCEPT ![id] = chain_tip]
          /\ loop_pc' = [loop_pc EXCEPT ![id] = "loop"]
          /\ cursor_read_failed' = [cursor_read_failed EXCEPT ![id] = TRUE]
       \/ /\ failures < MaxFailures /\ failures' = failures + 1
          /\ UNCHANGED <<current_block, best_block, loop_pc, cursor_read_failed>>
    /\ UNCHANGED <<cursor, chain_tip, applied>>
    /\ LoopUnchanged

\* head of the loop: get_block_count (an error returns); at
\* best_block = current_block the indexer goes to its 10 s sleep
Poll(id) ==
    /\ loop_pc[id] = "loop"
    /\ \/ /\ best_block' = [best_block EXCEPT ![id] = chain_tip]
          /\ loop_pc' = [loop_pc EXCEPT
                           ![id] = IF chain_tip = current_block[id] THEN "idle"
                                   ELSE "index"]
          /\ UNCHANGED failures
       \/ /\ failures < MaxFailures /\ failures' = failures + 1
          /\ loop_pc' = [loop_pc EXCEPT ![id] = "off"]
          /\ UNCHANGED best_block
    /\ UNCHANGED <<cursor, current_block, chain_tip, applied, restarts,
                   cursor_read_failed, fetch_failed, store_failed, run_last>>
    /\ LoopUnchanged

\* the select at best_block = current_block: the 10 s sleep ends and the loop
\* continues, or the indexer stops when cancelled
Sleep(id) ==
    /\ loop_pc[id] = "idle"
    /\ \/ loop_pc' = [loop_pc EXCEPT ![id] = "loop"]
       \/ loop_pc' = [loop_pc EXCEPT ![id] = "off"]
    /\ UNCHANGED <<cursor, current_block, best_block, chain_tip, applied,
                   failures, restarts, cursor_read_failed, fetch_failed, store_failed, run_last>>
    /\ LoopUnchanged

\* index_block(current_block): None when the hash or the block cannot be
\* fetched (no such height, or a failing call), else every transaction of the
\* block is applied and the result is Some; a store call that fails while a
\* transaction is applied is logged by its caller and the result still is Some
IndexBlock(id) ==
    /\ loop_pc[id] = "index"
    /\ \/ /\ current_block[id] \in 1..chain_tip
          /\ applied' = [applied EXCEPT ![id][current_block[id]] = @ + 1]
          /\ loop_pc' = [loop_pc EXCEPT ![id] = "save"]
          /\ run_last' = [run_last EXCEPT ![id] = current_block[id]]
          /\ fetch_failed' = [fetch_failed EXCEPT ![id] = 0]
          /\ store_failed' = [store_failed EXCEPT ![id] = 0]
          /\ UNCHANGED failures
       \/ /\ current_block[id] \in 1..chain_tip
          /\ failures < MaxFailures /\ failures' = failures + 1
          /\ applied' = [applied EXCEPT ![id][current_block[id]] = @ + 1]
          /\ loop_pc' = [loop_pc EXCEPT ![id] = "save"]
          /\ run_last' = [run_last EXCEPT ![id] = current_block[id]]
          /\ fetch_failed' = [fetch_failed EXCEPT ![id] = 0]
          /\ store_failed' = [store_failed EXCEPT ![id] = current_block[id]]
       \/ /\ current_block[id] \notin 1..chain_tip
          /\ loop_pc' = [loop_pc EXCEPT ![id] = "wait"]
          /\ fetch_failed' = [fetch_failed EXCEPT ![id] = current_block[id]]
          /\ UNCHANGED <<store_failed, run_last>>
          /\ UNCHANGED <<applied, failures>>
       \/ /\ failures < MaxFailures /\ failures' = failures + 1
          /\ loop_pc' = [loop_pc EXCEPT ![id] = "wait"]
          /\ fetch_failed' = [fetch_failed EXCEPT ![id] = current_block[id]]
          /\ UNCHANGED <<store_failed, run_last>>
          /\ UNCHANGED applied
    /\ UNCHANGED <<cursor, current_block, best_block, chain_tip, restarts,
                   cursor_read_failed>>
    /\ LoopUnchanged

\* the cursor write placed after current_block += 1
SaveCursor_after_increment(id) ==
    /\ loop_pc[id] = "save"
    /\ \/ /\ cursor' = [cursor EXCEPT ![id] = current_block[id] + 1]
          /\ UNCHANGED failures
       \/ /\ failures < MaxFailures /\ failures' = failures + 1
          /\ UNCHANGED cursor
    /\ current_block' = [current_block EXCEPT ![id] = @ + 1]
    /\ loop_pc' = [loop_pc EXCEPT ![id] = "wait"]
    /\ UNCHANGED <<best_block, chain_tip, applied, restarts, cursor_read_failed,
                   fetch_failed, store_failed, run_last>>
    /\ LoopUnchanged

\* update_last_indexed_block(current_block), its error only logged, then
\* current_block += 1
SaveCursor(id) ==
    /\ loop_pc[id] = "save"
    /\ \/ /\ cursor' = [cursor EXCEPT ![id] = current_block[id]]
          /\ UNCHANGED failures
       \/ /\ failures < MaxFailures /\ failures' = failures + 1
          /\ UNCHANGED cursor
    /\ current_block' = [current_block EXCEPT ![id] = @ + 1]
    /\ loop_pc' = [loop_pc EXCEPT ![id] = "wait"]
    /\ UNCHANGED <<best_block, chain_tip, applied, restarts, cursor_read_failed, fetch_failed, store_failed, run_last>>
    /\ LoopUnchanged

\* the foot of the loop with current_block += 1 outside the Some branch
Wait_advancing(id) ==
    /\ loop_pc[id] = "wait"
    /\ \/ loop_pc' = [loop_pc EXCEPT ![id] = "loop"]
       \/ loop_pc' = [loop_pc EXCEPT ![id] = "off"]
    /\ current_block' = [current_block EXCEPT ![id] = @ + 1]
    /\ UNCHANGED <<cursor, best_block, chain_tip, applied,
                   failures, restarts, cursor_read_failed, fetch_failed, store_failed, run_last>>
    /\ LoopUnchanged

\* foot of the loop: sleep 10 ms and continue, or stop when cancelled
Wait(id) ==
    /\ loop_pc[id] = "wait"
    /\ \/ loop_pc' = [loop_pc EXCEPT ![id] = "loop"]
       \/ loop_pc' = [loop_pc EXCEPT ![id] = "off"]
    /\ UNCHANGED <<cursor, current_block, best_block, chain_tip, applied,
                   failures, restarts, cursor_read_failed, fetch_failed, store_failed, run_last>>
    /\ LoopUnchanged

\* the process is stopped between applying a block and persisting its cursor
StopBeforeSave(id) ==
    /\ loop_pc[id] = "save"
    /\ loop_pc' = [loop_pc EXCEPT ![id] = "off"]
    /\ UNCHANGED <<cursor, current_block, best_block, chain_tip, applied,
                   failures, restarts, cursor_read_failed, fetch_failed, store_failed, run_last>>
    /\ LoopUnchanged

\* the node receives a block
NewBlock ==
    /\ chain_tip < MaxTip
    /\ chain_tip' = chain_tip + 1
    /\ UNCHANGED <<loop_pc, cursor, current_block, best_block, applied,
                   failures, restarts, cursor_read_failed, fetch_failed, store_failed, run_last>>
    /\ LoopUnchanged

NextLoop ==
    \/ \E id \in IndexerIds : Start(id)
    \/ \E id \in IndexerIds : Poll(id)
    \/ \E id \in IndexerIds : Sleep(id)
    \/ \E id \in IndexerIds : IndexBlock(id)
    \/ \E id \in IndexerIds : SaveCursor(id)
    \/ \E id \in IndexerIds : Wait(id)
    \/ \E id \in IndexerIds : StopBeforeSave(id)
    \/ NewBlock

SpecLoop == InitLoop /\ [][NextLoop]_vars

\* C3: no indexer applies the transactions of a height a second time
C3_BlocksAppliedAtMostOnce ==
    \A id \in IndexerIds : \A h \in 1..MaxTip : applied[id][h] <= 1

C13_FetchFailureRetriesSameHeight ==
    [][\A id \in IndexerIds :
          /\ (loop_pc[id] = "index" /\ loop_pc'[id] = "wait")
                => cursor'[id] = cursor[id]
          /\ (loop_pc'[id] = "index" /\ fetch_failed'[id] # 0)
                => current_block'[id] = fetch_failed'[id]]_vars

\* C13 witness: the fetch at a height the node holds failed, and the indexer
\* is attempting that height again
C13_Witness ==
    \E id \in IndexerIds :
        /\ loop_pc[id] = "index" /\ fetch_failed[id] = current_block[id]
        /\ fetch_failed[id] \in 1..chain_tip /\ failures > 0
        /\ cursor[id] < fetch_failed[id]

\* C14: after a store call has failed while block h was applied, the indexer
\* keeps h as the block to index: it does not go on to h + 1
C14_StoreFailureRetriesBlock ==
    \A id \in IndexerIds :
        (store_failed[id] # 0 /\ loop_pc[id] \in {"wait", "loop", "idle", "index"})
            => /\ current_block[id] = store_failed[id]
               /\ cursor[id] <= store_failed[id]

\* C15: within a run an indexer applies heights one after the other, each the
\* successor of the one before, and a cursor write persists the height whose
\* block index_block has just applied in full
C15_BlocksInOrderCursorAfterApply ==
    [][\A id \in IndexerIds :
          /\ applied'[id] # applied[id]
                => /\ applied'[id] = [applied[id] EXCEPT ![current_block[id]] = @ + 1]
                   /\ run_last[id] # 0 => current_block[id] = run_last[id] + 1
          /\ cursor'[id] # cursor[id]
                => /\ cursor'[id] = run_last[id]
                   /\ applied[id][cursor'[id]] >= 1]_vars

\* C15 witness: one run of the BTC indexer has applied blocks 1 and 2 in turn
\* and persisted the cursor 2
C15_Witness ==
    /\ restarts = 1 /\ loop_pc["btc_indexer"] = "wait"
    /\ cursor["btc_indexer"] = 2 /\ run_last["btc_indexer"] = 2
    /\ applied["btc_indexer"][1] = 1 /\ applied["btc_indexer"][2] = 1

\* C16: the runes indexer, started with no cursor above its starting height,
\* has applied every height from the starting height up to any height it has
\* applied, the starting height included
C16_StartingHeightProcessed ==
    \A h \in 1..MaxTip :
        applied["rune_etchings"][h] >= 1
            => \A g \in starting_height("rune_etchings")..h :
                   g >= 1 => applied["rune_etchings"][g] >= 1

\* C12: an indexer whose store and node calls have all answered is in its
\* 10 s sleep only when no unprocessed block exists: its cursor is the tip
\* it has read
C12_IdleOnlyAtTip ==
    \A id \in IndexerIds :
        (loop_pc[id] = "idle" /\ failures = 0) => cursor[id] = best_block[id]

\* ------------------------------------------------ the pending-tx watchdog
MaxTicks == 3       \* ticks of the watchdog in a behaviour

\* the confirmations test as `< 1`
MIN_CONFIRMATIONS_one == 2 - 1

\* tx_info.confirmations.unwrap_or_default() < 2
MIN_CONFIRMATIONS == 2

TxHashes == {"t1", "t2"}
RequestOf(tx_hash) == IF tx_hash = "t1" THEN "r1" ELSE "r2"
RequestIds == {RequestOf(t) : t \in TxHashes}
\* LiquidityChangeRequest::ADD_LIQUIDITY, REMOVE_LIQUIDITY, SWAP_DIRECT,
\* SWAP_REVERSE
RequestActions == {"add", "remove", "swap-direct", "swap-reverse"}

NoDbtx == [open |-> FALSE, aborted |-> FALSE, writes |-> <<>>]
NoLocal == [tx_hash |-> "", request_id |-> "", action |-> "",
            base_delta |-> 0, quote_delta |-> 0,
            trading_pair |-> <<>>, lp |-> <<>>]

InitWd ==
    /\ wd_pc = "sleep" /\ wd_list = <<>> /\ wd_local = NoLocal /\ dbtx = NoDbtx
    /\ submitted_txs = [t \in TxHashes |->
                          [tx_hash |-> t, request_id |-> RequestOf(t),
                           status |-> "pending"]]
    /\ requests \in [RequestIds ->
                       {[action |-> a, base_amount |-> 1, quote_amount |-> 2,
                         status |-> "new", tx_hash |-> ""] :
                          a \in RequestActions}]
    /\ trading_pair = [base_balance |-> 2, quote_balance |-> 3]
    /\ provider = [base_amount |-> 2, quote_amount |-> 3]
    /\ apply_count = [t \in TxHashes |-> [pair |-> 0, lp |-> 0, failed |-> 0]]
    /\ confirmations = [t \in TxHashes |-> 1]
    /\ aged = {} /\ ticks = 0 /\ failures = 0
    /\ loop_pc = "off" /\ cursor = <<>> /\ current_block = <<>>
    /\ best_block = <<>> /\ chain_tip = 0 /\ applied = <<>>
    /\ restarts = 0 /\ cursor_read_failed = <<>> /\ fetch_failed = <<>>
    /\ store_failed = <<>> /\ run_last = <<>>
    /\ InitStore /\ TxIdle /\ PsbtIdle /\ height = 0
    /\ disable_rune_log = FALSE /\ filter_runes = FALSE
    /\ runes_ids_watchlist = {}

\* the committed rows the watchdog works on, and a connection holding them
\* with the open store transaction
WdDb == [pair |-> trading_pair, lp |-> provider, reqs |-> requests,
         txs |-> submitted_txs, count |-> apply_count]
Conn == [db |-> WdDb, dbtx |-> dbtx]

\* the effect of one UPDATE on the committed rows (no row, no change)
ApplyWrite(db, w) ==
    CASE w.table = "trading_pair" ->
           [db EXCEPT !.pair = w.row, !.count[w.by].pair = @ + 1]
      [] w.table = "liquidity_providers" ->
           [db EXCEPT !.lp = w.row, !.count[w.by].lp = @ + 1]
      [] w.table = "liquidity_change_requests" ->
           IF w.key \in DOMAIN db.reqs
           THEN [db EXCEPT !.reqs[w.key].tx_hash = w.tx_hash,
                           !.reqs[w.key].status = w.status]
           ELSE db
      [] OTHER ->
           IF w.key \in DOMAIN db.txs
           THEN [db EXCEPT !.txs[w.key].status = w.status] ELSE db

RECURSIVE ApplyWrites(_, _)
ApplyWrites(db, writes) ==
    IF writes = <<>> THEN db
    ELSE ApplyWrites(ApplyWrite(db, Head(writes)), Tail(writes))

\* query.execute(&mut **tx): the statement takes effect inside the transaction
execute(c, w) == [c EXCEPT !.dbtx.writes = Append(@, w)]
\* a statement that fails leaves the transaction aborted
statement_failed(c) == [c EXCEPT !.dbtx.aborted = TRUE]
\* dbtx.commit(): an aborted transaction is rolled back
commit(c) == IF c.dbtx.aborted THEN c.db ELSE ApplyWrites(c.db, c.dbtx.writes)

\* update_trading_pair executed on the pool, outside the transaction
update_trading_pair_on_pool(c, pair, by) ==
    [c EXCEPT !.db = ApplyWrite(@, [table |-> "trading_pair", row |-> pair,
                                    by |-> by])]

\* Repo::update_trading_pair
update_trading_pair(c, pair, by) ==
    execute(c, [table |-> "trading_pair", row |-> pair, by |-> by])
\* Repo::update_liquidity_provider
update_liquidity_provider(c, row, by) ==
    execute(c, [table |-> "liquidity_providers", row |-> row, by |-> by])
\* Repo::update_liquidity_change_request
update_liquidity_change_request(c, request_id, tx_hash, status) ==
    execute(c, [table |-> "liquidity_change_requests", key |-> request_id,
                tx_hash |-> tx_hash, status |-> status])
\* update_submitted_tx with a WHERE clause that matches no row
update_submitted_tx_no_row(c, tx_hash, status) == c

\* Repo::update_submitted_tx
update_submitted_tx(c, tx_hash, status) ==
    execute(c, [table |-> "submitted_txs", key |-> tx_hash, status |-> status])

SetWdDb(db) ==
    /\ trading_pair' = db.pair /\ provider' = db.lp /\ requests' = db.reqs
    /\ submitted_txs' = db.txs /\ apply_count' = db.count

WdUnchanged ==
    UNCHANGED <<storeVars, configVars, txVars, psbtVars, commitVars, btcVars, stopVars, loop_pc, cursor, current_block,
                best_block, chain_tip, applied, restarts, cursor_read_failed, fetch_failed, store_failed, run_last>>
WdDbUnchanged ==
    UNCHANGED <<trading_pair, provider, requests, submitted_txs, apply_count>>

\* a call that fails, within the failures the behaviour allows
Fails == failures < MaxFailures /\ failures' = failures + 1

\* the balances process_change_liquidity computes for an action (+ and - on
\* u128)
BalancesAfter(action, base, quote, base_delta, quote_delta) ==
    CASE action = "add" ->
           <<WrapAdd(base, base_delta), WrapAdd(quote, quote_delta)>>
      [] action = "remove" ->
           <<WrapSub(base, base_delta), WrapSub(quote, quote_delta)>>
      [] action = "swap-direct" ->
           <<WrapAdd(base, base_delta), WrapSub(quote, quote_delta)>>
      [] OTHER ->
           <<WrapSub(base, base_delta), WrapAdd(quote, quote_delta)>>

\* run: do_job every 30 s until cancelled; do_job starts with
\* select_pending_txs (an error ends the tick)
Tick ==
    /\ wd_pc = "sleep" /\ ticks < MaxTicks
    /\ ticks' = ticks + 1
    /\ \/ /\ LET pending(t) == submitted_txs[t].status = "pending"
             IN  wd_list' = SelectSeq(<<"t1", "t2">>, pending)
          /\ wd_pc' = "job" /\ UNCHANGED failures
       \/ /\ Fails /\ UNCHANGED <<wd_list, wd_pc>>
    /\ UNCHANGED <<wd_local, dbtx, confirmations, aged>>
    /\ WdDbUnchanged /\ WdUnchanged

\* fail_tx: submitted tx and request to failed in one store transaction; the
\* request row is written with the request id as tx_hash
fail_tx(c, tx_hash, request_id) ==
    update_liquidity_change_request(
        update_submitted_tx(c, tx_hash, "failed"), request_id, request_id,
        "failed")

\* the for loop of do_job, one pending tx per step
DoJobNext ==
    /\ wd_pc = "job"
    /\ IF wd_list = <<>>
       THEN /\ wd_pc' = "sleep"
            /\ UNCHANGED <<wd_list, wd_local, aged, failures>>
            /\ WdDbUnchanged
       ELSE LET t == Head(wd_list)
                request == requests[RequestOf(t)]
                open == [db |-> WdDb, dbtx |-> [NoDbtx EXCEPT !.open = TRUE]]
            IN  \/ \* get_raw_transaction_info fails, the tx is younger than 1 h
                   /\ t \notin aged
                   /\ wd_list' = Tail(wd_list) /\ wd_pc' = "job"
                   /\ UNCHANGED <<wd_local, aged, failures>> /\ WdDbUnchanged
                \/ \* get_raw_transaction_info fails, the tx is 1 h old: fail_tx
                   /\ aged' = aged \cup {t}
                   /\ wd_list' = Tail(wd_list) /\ wd_pc' = "job"
                   /\ UNCHANGED wd_local
                   /\ \/ /\ SetWdDb(commit(fail_tx(open, t, RequestOf(t))))
                         /\ UNCHANGED failures
                      \/ /\ Fails /\ WdDbUnchanged
                \/ \* confirmations < 2
                   /\ confirmations[t] < MIN_CONFIRMATIONS
                   /\ wd_list' = Tail(wd_list) /\ wd_pc' = "job"
                   /\ UNCHANGED <<wd_local, aged, failures>> /\ WdDbUnchanged
                \/ \* get_liquidity_change_request fails: do_job returns
                   /\ confirmations[t] >= MIN_CONFIRMATIONS
                   /\ Fails
                   /\ wd_list' = <<>> /\ wd_pc' = "sleep"
                   /\ UNCHANGED <<wd_local, aged>> /\ WdDbUnchanged
                \/ \* process_change_liquidity for the request's action
                   /\ confirmations[t] >= MIN_CONFIRMATIONS
                   /\ wd_list' = Tail(wd_list) /\ wd_pc' = "begin"
                   /\ wd_local' = [NoLocal EXCEPT
                                     !.tx_hash = t,
                                     !.request_id = RequestOf(t),
                                     !.action = request.action,
                                     !.base_delta = request.base_amount,
                                     !.quote_delta = request.quote_amount]
                   /\ UNCHANGED <<aged, failures>> /\ WdDbUnchanged
    /\ UNCHANGED <<dbtx, confirmations, ticks>>
    /\ WdUnchanged

\* a step of process_change_liquidity that returns early: the transaction
\* handle is dropped and with it the staged writes
Return ==
    /\ Fails /\ dbtx' = NoDbtx /\ wd_pc' = "job"
    /\ apply_count' = [apply_count EXCEPT ![wd_local.tx_hash].failed = @ + 1]
    /\ UNCHANGED <<wd_local, trading_pair, provider, requests, submitted_txs>>

\* pool.begin()
Begin ==
    /\ wd_pc = "begin"
    /\ \/ /\ dbtx' = [NoDbtx EXCEPT !.open = TRUE] /\ wd_pc' = "load_pair"
          /\ UNCHANGED <<wd_local, failures>> /\ WdDbUnchanged
       \/ Return
    /\ UNCHANGED <<wd_list, confirmations, aged, ticks>>
    /\ WdUnchanged

\* get_trading_pair_by_id, then the balances for the action
LoadTradingPair ==
    /\ wd_pc = "load_pair"
    /\ \/ /\ LET b == BalancesAfter(wd_local.action, trading_pair.base_balance,
                                    trading_pair.quote_balance,
                                    wd_local.base_delta, wd_local.quote_delta)
             IN  wd_local' = [wd_local EXCEPT
                                !.trading_pair = [base_balance |-> b[1],
                                                  quote_balance |-> b[2]]]
          /\ wd_pc' = IF wd_local.action \in {"add", "remove"} THEN "load_lp"
                      ELSE "update_pair"
          /\ UNCHANGED <<dbtx, failures>> /\ WdDbUnchanged
       \/ Return
    /\ UNCHANGED <<wd_list, confirmations, aged, ticks>>
    /\ WdUnchanged

\* get_liquidity_provider, then its amounts for add / remove
LoadLiquidityProvider ==
    /\ wd_pc = "load_lp"
    /\ \/ /\ LET b == BalancesAfter(wd_local.action, provider.base_amount,
                                    provider.quote_amount,
                                    wd_local.base_delta, wd_local.quote_delta)
             IN  wd_local' = [wd_local EXCEPT
                                !.lp = [base_amount |-> b[1],
                                        quote_amount |-> b[2]]]
          /\ wd_pc' = "update_lp"
          /\ UNCHANGED <<dbtx, failures>> /\ WdDbUnchanged
       \/ Return
    /\ UNCHANGED <<wd_list, confirmations, aged, ticks>>
    /\ WdUnchanged

\* a statement of process_change_liquidity on the open transaction
Statement(c, next) ==
    /\ SetWdDb(c.db) /\ dbtx' = c.dbtx /\ wd_pc' = next
    /\ UNCHANGED <<wd_local, failures>>

UpdateLiquidityProvider ==
    /\ wd_pc = "update_lp"
    /\ \/ Statement(update_liquidity_provider(Conn, wd_local.lp, wd_local.tx_hash),
                    "update_pair")
       \/ Return
    /\ UNCHANGED <<wd_list, confirmations, aged, ticks>>
    /\ WdUnchanged

UpdateTradingPair ==
    /\ wd_pc = "update_pair"
    /\ \/ Statement(update_trading_pair(Conn, wd_local.trading_pair,
                                        wd_local.tx_hash), "update_request")
       \/ Return
    /\ UNCHANGED <<wd_list, confirmations, aged, ticks>>
    /\ WdUnchanged

UpdateRequest ==
    /\ wd_pc = "update_request"
    /\ \/ Statement(update_liquidity_change_request(
                      Conn, wd_local.request_id, wd_local.tx_hash, "done"),
                    "update_tx")
       \/ Return
    /\ UNCHANGED <<wd_list, confirmations, aged, ticks>>
    /\ WdUnchanged

\* update_submitted_tx: its error is logged and the handler goes on to commit
UpdateSubmittedTx ==
    /\ wd_pc = "update_tx"
    /\ \/ Statement(update_submitted_tx(Conn, wd_local.tx_hash, "mined"), "commit")
       \/ /\ Fails
          /\ dbtx' = statement_failed(Conn).dbtx /\ wd_pc' = "commit"
          /\ UNCHANGED wd_local /\ WdDbUnchanged
    /\ UNCHANGED <<wd_list, confirmations, aged, ticks>>
    /\ WdUnchanged

\* dbtx.commit(): its error is logged
CommitDbtx ==
    /\ wd_pc = "commit"
    /\ \/ /\ ~dbtx.aborted /\ SetWdDb(commit(Conn)) /\ UNCHANGED failures
       \/ /\ dbtx.aborted /\ UNCHANGED failures
          /\ SetWdDb([commit(Conn) EXCEPT
                        !.count[wd_local.tx_hash].failed = @ + 1])
       \/ /\ Fails
          /\ SetWdDb([WdDb EXCEPT !.count[wd_local.tx_hash].failed = @ + 1])
    /\ dbtx' = [NoDbtx EXCEPT !.aborted = dbtx.aborted] /\ wd_pc' = "job"
    /\ UNCHANGED <<wd_local, wd_list, confirmations, aged, ticks>>
    /\ WdUnchanged

\* the chain confirms a submitted tx once more
Confirm(t) ==
    /\ confirmations[t] < MIN_CONFIRMATIONS
    /\ confirmations' = [confirmations EXCEPT ![t] = @ + 1]
    /\ UNCHANGED <<wd_pc, wd_list, wd_local, dbtx, aged, ticks, failures>>
    /\ WdDbUnchanged /\ WdUnchanged

NextWd ==
    \/ Tick
    \/ DoJobNext
    \/ Begin
    \/ LoadTradingPair
    \/ LoadLiquidityProvider
    \/ UpdateLiquidityProvider
    \/ UpdateTradingPair
    \/ UpdateRequest
    \/ UpdateSubmittedTx
    \/ CommitDbtx
    \/ \E t \in TxHashes : Confirm(t)

SpecWd == InitWd /\ [][NextWd]_vars

\* ------------------------------------------------- claims on SpecWd
\* the facts a reconcile of tx t establishes
PairApplied(t) == apply_count[t].pair >= 1
ProviderApplied(t) == apply_count[t].lp >= 1
RequestDone(t) ==
    requests[RequestOf(t)].status = "done" /\ requests[RequestOf(t)].tx_hash = t
TxMined(t) == submitted_txs[t].status = "mined"
NeedsProvider(t) == requests[RequestOf(t)].action \in {"add", "remove"}

\* C5: for every submitted tx, the committed rows show its reconcile as a
\* whole (pair delta, provider delta for add / remove, request done with the
\* tx hash, tx mined) or not at all, whichever step failed
C5_ReconcileAllOrNothing ==
    \A t \in TxHashes :
        \/ /\ PairApplied(t) /\ RequestDone(t) /\ TxMined(t)
           /\ ProviderApplied(t) = NeedsProvider(t)
        \/ /\ ~PairApplied(t) /\ ~ProviderApplied(t) /\ ~RequestDone(t)
           /\ ~TxMined(t)

\* C5 witness: the final update of the submitted tx failed, the handler
\* committed all the same, and nothing of the reconcile is in the rows
C5_Witness ==
    /\ wd_pc = "job" /\ dbtx.aborted
    /\ wd_local.action = "add"
    /\ ~PairApplied(wd_local.tx_hash) /\ ~RequestDone(wd_local.tx_hash)
    /\ submitted_txs[wd_local.tx_hash].status = "pending"

C18_FailTxBothAndTxidKept ==
    [][\A t \in TxHashes :
          LET r == RequestOf(t)
          IN  (\/ submitted_txs'[t].status = "failed"
                    /\ submitted_txs[t].status # "failed"
               \/ requests'[r].status = "failed" /\ requests[r].status # "failed")
                 => /\ submitted_txs'[t].status = "failed"
                    /\ requests'[r].status = "failed"
                    /\ requests'[r].tx_hash = requests[r].tx_hash]_vars

\* C19: the commit that mines a tx leaves the pair with the request's delta
\* applied with the signs of its action (add + +, remove - -, swap-direct + -,
\* swap-reverse - +), the provider with the same delta for add and remove, and
\* the provider as it was for the swaps
C19_ReconcileAppliesDelta ==
    [][\A t \in TxHashes :
          (submitted_txs[t].status = "pending" /\ submitted_txs'[t].status = "mined")
            => LET r == requests[RequestOf(t)]
                   sb == IF r.action \in {"add", "swap-direct"} THEN 1 ELSE -1
                   sq == IF r.action \in {"add", "swap-reverse"} THEN 1 ELSE -1
               IN  /\ trading_pair'.base_balance
                         = trading_pair.base_balance + sb * r.base_amount
                   /\ trading_pair'.quote_balance
                         = trading_pair.quote_balance + sq * r.quote_amount
                   /\ provider' =
                         IF r.action \in {"add", "remove"}
                         THEN [base_amount |-> provider.base_amount
                                                 + sb * r.base_amount,
                               quote_amount |-> provider.quote_amount
                                                  + sq * r.quote_amount]
                         ELSE provider]_vars

\* ------------------------------------- the watchdog under fair scheduling
\* a liquidity_change_requests row that is not in the table
NoRequest == [action |-> "", base_amount |-> 0, quote_amount |-> 0,
              status |-> "absent", tx_hash |-> ""]
RequestLoads(t) == requests[RequestOf(t)].status # "absent"

\* the watchdog with every call succeeding, but for the request of t1, whose
\* row may be missing; the chain has confirmed each tx once or twice
InitWdFair ==
    /\ wd_pc = "sleep" /\ wd_list = <<>> /\ wd_local = NoLocal /\ dbtx = NoDbtx
    /\ submitted_txs = [t \in TxHashes |->
                          [tx_hash |-> t, request_id |-> RequestOf(t),
                           status |-> "pending"]]
    /\ \E r1 \in {[action |-> a, base_amount |-> 1, quote_amount |-> 2,
                    status |-> "new", tx_hash |-> ""] : a \in RequestActions}
                  \cup {NoRequest},
          r2 \in {[action |-> a, base_amount |-> 1, quote_amount |-> 2,
                    status |-> "new", tx_hash |-> ""] : a \in RequestActions} :
          requests = [r \in RequestIds |-> IF r = "r1" THEN r1 ELSE r2]
    /\ trading_pair = [base_balance |-> 2, quote_balance |-> 3]
    /\ provider = [base_amount |-> 2, quote_amount |-> 3]
    /\ apply_count = [t \in TxHashes |-> [pair |-> 0, lp |-> 0, failed |-> 0]]
    /\ confirmations \in [TxHashes -> {1, MIN_CONFIRMATIONS}]
    /\ aged = {} /\ ticks = 0 /\ failures = MaxFailures
    /\ loop_pc = "off" /\ cursor = <<>> /\ current_block = <<>>
    /\ best_block = <<>> /\ chain_tip = 0 /\ applied = <<>>
    /\ restarts = 0 /\ cursor_read_failed = <<>> /\ fetch_failed = <<>>
    /\ store_failed = <<>> /\ run_last = <<>>
    /\ InitStore /\ TxIdle /\ PsbtIdle /\ height = 0
    /\ disable_rune_log = FALSE /\ filter_runes = FALSE
    /\ runes_ids_watchlist = {}

\* run: do_job every 30 s, without an end; select_pending_txs succeeds
TickFair ==
    /\ wd_pc = "sleep"
    /\ LET pending(t) == submitted_txs[t].status = "pending"
       IN  wd_list' = SelectSeq(<<"t1", "t2">>, pending)
    /\ wd_pc' = "job"
    /\ UNCHANGED <<wd_local, dbtx, confirmations, aged, ticks, failures>>
    /\ WdDbUnchanged /\ WdUnchanged

\* the for loop of do_job, one pending tx per step, get_raw_transaction_info
\* succeeding and get_liquidity_change_request failing on a missing row
DoJobFair ==
    /\ wd_pc = "job"
    /\ IF wd_list = <<>>
       THEN /\ wd_pc' = "sleep" /\ UNCHANGED <<wd_list, wd_local>>
       ELSE LET t == Head(wd_list)
                request == requests[RequestOf(t)]
            IN  IF confirmations[t] < MIN_CONFIRMATIONS
                THEN /\ wd_list' = Tail(wd_list) /\ wd_pc' = "job"
                     /\ UNCHANGED wd_local
                ELSE IF ~RequestLoads(t)
                THEN \* do_job returns
                     /\ wd_list' = <<>> /\ wd_pc' = "sleep"
                     /\ UNCHANGED wd_local
                ELSE /\ wd_list' = Tail(wd_list) /\ wd_pc' = "begin"
                     /\ wd_local' = [NoLocal EXCEPT
                                       !.tx_hash = t,
                                       !.request_id = RequestOf(t),
                                       !.action = request.action,
                                       !.base_delta = request.base_amount,
                                       !.quote_delta = request.quote_amount]
    /\ UNCHANGED <<dbtx, confirmations, ticks, aged, failures>>
    /\ WdDbUnchanged /\ WdUnchanged

\* the steps of the watchdog task
WdStep ==
    \/ TickFair
    \/ DoJobFair
    \/ Begin
    \/ LoadTradingPair
    \/ LoadLiquidityProvider
    \/ UpdateLiquidityProvider
    \/ UpdateTradingPair
    \/ UpdateRequest
    \/ UpdateSubmittedTx
    \/ CommitDbtx

NextWdFair ==
    \/ WdStep
    \/ \E t \in TxHashes : Confirm(t)

SpecWdFair == InitWdFair /\ [][NextWdFair]_vars /\ WF_vars(WdStep)

\* C35: a pending submitted tx with 2 confirmations whose request loads is
\* in the end mined and its request done, whatever the other pending txs
C35_ConfirmedTxEventuallyMined ==
    \A t \in TxHashes :
        ( /\ submitted_txs[t].status = "pending"
          /\ confirmations[t] >= MIN_CONFIRMATIONS
          /\ RequestLoads(t) )
          ~> (TxMined(t) /\ RequestDone(t))

\* the reconcile in hand takes more off the pair or off the provider than the
\* balance holds
DeltaExceedsBalance ==
    LET base == wd_local.action \in {"remove", "swap-reverse"}
        quote == wd_local.action \in {"remove", "swap-direct"}
    IN  \/ base /\ wd_local.base_delta > trading_pair.base_balance
        \/ quote /\ wd_local.quote_delta > trading_pair.quote_balance
        \/ /\ wd_local.action = "remove"
           /\ \/ wd_local.base_delta > provider.base_amount
              \/ wd_local.quote_delta > provider.quote_amount

\* C36: the commit of a reconcile whose delta exceeds the balance of the pair
\* or of the provider changes neither the pair, the provider, the request
\* nor the submitted tx
C36_OverdrawnReconcileAborted ==
    [][(wd_pc = "commit" /\ DeltaExceedsBalance)
         => UNCHANGED <<trading_pair, provider, requests, submitted_txs>>]_vars

RECURSIVE PairAfter(_, _)
\* the pair balances with the deltas of a set of txs applied once each
PairAfter(pair, txs) ==
    IF txs = {} THEN pair
    ELSE LET t == CHOOSE x \in txs : TRUE
             r == requests[RequestOf(t)]
             b == BalancesAfter(r.action, pair.base_balance, pair.quote_balance,
                                r.base_amount, r.quote_amount)
         IN  PairAfter([base_balance |-> b[1], quote_balance |-> b[2]],
                       txs \ {t})

BuildIds == {"b1", "b2"}
\* LIMIT of select_runes_utxo_with_pagination in collect_runes_utxo (100 in
\* the source) and of get_utxo in collect_btc_utxo (40 in the source), scaled
RUNES_PAGE == 2
BTC_PAGE == 2
\* fee = fee_rate * vsize * 2, from get_fee and the size of the tx
FeeChoices == {100, 300}
U64Bits == 20       \* width of a btc amount (u64, scaled)
U64Mod == 2 ^ U64Bits
\* `-` on u64 in a build without overflow checks
WrapSub64(a, b) == (a - b + U64Mod) % U64Mod
\* runes_txs::RUNES_OUT_VALUE
RUNES_OUT_VALUE == 600
\* service_fee floor and threshold of build_multi_asset_tx
SERVICE_FEE_THRESHOLD == 2000
SERVICE_FEE_MIN == 1000

\* tx_params: the rune input address and amount, the btc input and the fee
\* input addresses, the btc amount
TxParamsSet ==
    [rune_address : {"a1"}, rune_amount : {1, 2}, btc_address : Addresses,
     fee_address : Addresses, btc_amount : {700, 50000},
     fee_precent : {None, 3}, rune_name : {20},
     rune_out_address : {"a2"}, btc_out_address : {"a2"}]
NoParams == [rune_address |-> "", rune_amount |-> 0, btc_address |-> "",
             fee_address |-> "", btc_amount |-> 0, fee_precent |-> None,
             rune_name |-> 0, rune_out_address |-> "", btc_out_address |-> ""]
\* opts.destination of the service fee
ServiceDestinations == <<"a2">>
\* a TxOut; runestone holds the Runestone its script was enciphered from
TxOut(value, address) == [value |-> value, address |-> address,
                          runestone |-> <<>>]
\* TxBuilderCtx::new
\* TxBuilderCtx::new(true): output 0 is the place of the runestone
NewCtx == [pc |-> "idle", params |-> NoParams, used_btc_utxos |-> {},
           new_used_btc_utxos |-> {}, runes_inputs |-> <<>>,
           btc_inputs |-> <<>>, rune_btc_in_amount |-> 0,
           rune_btc_change |-> 0, btc_extra_amount |-> 0, service_fee |-> 0,
           fee |-> 0, outputs |-> <<TxOut(0, "")>>]

\* the wallets the builds run against: the rune utxos of a1 (outpoint, rune
\* amount and value in sats) and the btc utxos of both addresses (outpoint
\* and value); a rune utxo is a btc utxo of its address too
RuneWallets ==
    {<<[op |-> 1, amount |-> 2, btc_amount |-> 546]>>,
     <<[op |-> 1, amount |-> 1, btc_amount |-> 1000],
       [op |-> 2, amount |-> 0, btc_amount |-> 546],
       [op |-> 3, amount |-> 2, btc_amount |-> 1500]>>}
BtcWallet(rows) ==
    [a \in Addresses |->
        IF a = "a1"
        THEN [i \in 1..Len(rows) |->
                 [op |-> rows[i].op, amount |-> rows[i].btc_amount]]
                \o <<[op |-> 4, amount |-> 60000]>>
        ELSE <<[op |-> 5, amount |-> 30000], [op |-> 6, amount |-> 30000],
               [op |-> 7, amount |-> 30000]>>]

InitPsbt ==
    /\ \E rows \in RuneWallets :
          /\ wallet_runes = [a \in Addresses |-> IF a = "a1" THEN rows ELSE <<>>]
          /\ wallet_btc = BtcWallet(rows)
    /\ \E l1 \in {{}, {1}}, l2 \in {{}, {5}} :
          locked_utxos = [a \in Addresses |-> IF a = "a1" THEN l1 ELSE l2]
    /\ cache_writer = ""
    /\ build = [b \in BuildIds |-> NewCtx]
    /\ commit_args = <<>> /\ commit_tx = <<>>
    /\ btc_chain = <<>> /\ btc_utxos = EmptyBag /\ btc_watchlist = <<>>
    /\ btc_balances = <<>> /\ btc_run = <<>>
    /\ stop_signal = <<>> /\ stop_tasks = <<>> /\ stop_tip = 0
    /\ InitStore /\ TxIdle /\ LoopIdle /\ WdIdle /\ height = 0
    /\ disable_rune_log = FALSE /\ filter_runes = FALSE
    /\ runes_ids_watchlist = {}

PsbtUnchanged ==
    UNCHANGED <<storeVars, configVars, txVars, loopVars, wdVars, commitVars, btcVars, stopVars>>

\* CacheRepo::get_locked_utxos
get_locked_utxos(address) == locked_utxos[address]

\* one page of utxos: LIMIT limit OFFSET offset over the ordered rows
Page(utxos, limit, offset) ==
    SubSeq(utxos, offset + 1, Min({offset + limit, Len(utxos)}))

RECURSIVE collect_runes_page(_, _, _, _, _)
\* the for loop of collect_runes_utxo over one page, from row i
collect_runes_page(page, i, amount, locked, acc) ==
    IF i > Len(page) THEN acc
    ELSE LET u == page[i]
         IN  IF u.op \in locked \/ u.amount = 0
             THEN collect_runes_page(page, i + 1, amount, locked, acc)
             ELSE LET next == [collected |-> acc.collected + u.amount,
                               result |-> Append(acc.result, u)]
                  IN  IF next.collected >= amount THEN next
                      ELSE collect_runes_page(page, i + 1, amount, locked, next)

RECURSIVE collect_runes_loop(_, _, _, _, _)
collect_runes_loop(utxos, amount, locked, offset, acc) ==
    IF acc.collected >= amount
    THEN [ok |-> TRUE, result |-> acc.result, offset |-> offset]
    ELSE LET page == Page(utxos, RUNES_PAGE, offset)
         IN  IF page = <<>>
             THEN [ok |-> FALSE, result |-> <<>>, offset |-> offset]
             ELSE collect_runes_loop(utxos, amount, locked, offset + RUNES_PAGE,
                      collect_runes_page(page, 1, amount, locked, acc))

\* collect_runes_utxo that looks at no lock
collect_runes_utxo_unlocked(address, amount, locked) ==
    collect_runes_loop(wallet_runes[address], amount, {}, 0,
                       [collected |-> 0, result |-> <<>>])
\* PoolTxBuilder::collect_runes_utxo
collect_runes_utxo(address, amount, locked) ==
    collect_runes_loop(wallet_runes[address], amount, locked, 0,
                       [collected |-> 0, result |-> <<>>])

RECURSIVE collect_btc_page(_, _, _, _, _)
\* the for loop of collect_btc_utxo over one page, from row i
collect_btc_page(page, i, amount, locked, acc) ==
    IF i > Len(page) THEN acc
    ELSE LET u == page[i]
         IN  IF u.op \in locked
             THEN collect_btc_page(page, i + 1, amount, locked, acc)
             ELSE LET next == [collected |-> acc.collected + u.amount,
                               result |-> Append(acc.result, u)]
                  IN  IF next.collected >= amount THEN next
                      ELSE collect_btc_page(page, i + 1, amount, locked, next)

RECURSIVE collect_btc_loop(_, _, _, _, _)
collect_btc_loop(utxos, amount, locked, offset, acc) ==
    IF acc.collected >= amount THEN [ok |-> TRUE, result |-> acc.result]
    ELSE LET page == Page(utxos, BTC_PAGE, offset)
         IN  IF page = <<>> THEN [ok |-> FALSE, result |-> <<>>]
             ELSE collect_btc_loop(utxos, amount, locked, offset + BTC_PAGE,
                      collect_btc_page(page, 1, amount, locked, acc))

\* PoolTxBuilder::collect_btc_utxo
collect_btc_utxo(address, amount, locked) ==
    collect_btc_loop(wallet_btc[address], amount, locked, 0,
                     [collected |-> 0, result |-> <<>>])

RECURSIVE set_runes_inputs(_, _, _, _, _)
\* the rune inputs of build_multi_asset_tx: each collected utxo becomes an
\* input and a used outpoint, until the amount is exceeded
set_runes_inputs(ctx, address, utxos, i, rune_in_amount) ==
    IF i > Len(utxos) \/ rune_in_amount > ctx.params.rune_amount THEN ctx
    ELSE LET u == utxos[i]
         IN  set_runes_inputs(
                 [ctx EXCEPT !.runes_inputs = Append(@, u.op),
                             !.rune_btc_in_amount = @ + u.btc_amount,
                             !.used_btc_utxos = @ \cup {u.op},
                             !.new_used_btc_utxos = @ \cup {<<address, u.op>>}],
                 address, utxos, i + 1, rune_in_amount + u.amount)

RECURSIVE add_btc_inputs(_, _, _, _, _)
\* the for loop of add_btc_to_tx: a utxo already used is passed over
add_btc_inputs(ctx, address, utxos, i, btc_in_amount) ==
    IF i > Len(utxos) THEN [ctx |-> ctx, btc_in_amount |-> btc_in_amount]
    ELSE LET u == utxos[i]
         IN  IF u.op \in ctx.used_btc_utxos
             THEN add_btc_inputs(ctx, address, utxos, i + 1, btc_in_amount)
             ELSE add_btc_inputs(
                      [ctx EXCEPT !.btc_inputs = Append(@, u.op),
                                  !.used_btc_utxos = @ \cup {u.op},
                                  !.new_used_btc_utxos = @ \cup {<<address, u.op>>}],
                      address, utxos, i + 1, btc_in_amount + u.amount)

\* PoolTxBuilder::add_btc_to_tx; output is <<>> or one TxOut, and what the
\* inputs hold over btc_amount goes back to the address when above 600
add_btc_to_tx(ctx, address, output, btc_amount) ==
    LET c == collect_btc_utxo(address, btc_amount, ctx.used_btc_utxos)
        r == add_btc_inputs(ctx, address, c.result, 1, 0)
        btc_change_value == r.btc_in_amount - btc_amount
        change == IF btc_change_value > 600
                  THEN <<TxOut(btc_change_value, address)>> ELSE <<>>
    IN  IF ~c.ok \/ r.btc_in_amount < btc_amount
        THEN [ok |-> FALSE, ctx |-> ctx]
        ELSE [ok |-> TRUE,
              ctx |-> [r.ctx EXCEPT !.outputs = @ \o output \o change]]

\* the rune change output of build_multi_asset_tx: the value left of the rune
\* inputs after the rune output, raised to RUNES_OUT_VALUE, and the sats added
set_runes_change(ctx) ==
    LET rune_btc_change == WrapSub64(ctx.rune_btc_in_amount, RUNES_OUT_VALUE)
    IN  IF rune_btc_change < RUNES_OUT_VALUE
        THEN [ctx EXCEPT !.btc_extra_amount = RUNES_OUT_VALUE - rune_btc_change,
                         !.rune_btc_change = RUNES_OUT_VALUE]
        ELSE [ctx EXCEPT !.rune_btc_change = rune_btc_change]

\* the rune outputs with the pointer taken before the rune output is pushed
set_runes_outputs_early_pointer(ctx, rune) ==
    LET p == ctx.params
        edicts == <<[id |-> <<rune.block, rune.tx_id>>,
                     amount |-> p.rune_amount, output |-> 1]>>
        pointer == Len(ctx.outputs)
        with_out == Append(ctx.outputs,
                           TxOut(RUNES_OUT_VALUE, p.rune_out_address))
        c == set_runes_change(ctx)
        with_change == Append(with_out, TxOut(c.rune_btc_change, p.rune_address))
        runestone == [edicts |-> edicts, pointer |-> pointer]
    IN  [c EXCEPT !.outputs =
                     [with_change EXCEPT ![1].runestone = <<runestone>>]]

\* the rune outputs of build_multi_asset_tx: the edict for output 1, the rune
\* output, the change output the pointer names, the runestone in output 0
set_runes_outputs(ctx, rune) ==
    LET p == ctx.params
        edicts == <<[id |-> <<rune.block, rune.tx_id>>,
                     amount |-> p.rune_amount, output |-> 1]>>
        with_out == Append(ctx.outputs,
                           TxOut(RUNES_OUT_VALUE, p.rune_out_address))
        c == set_runes_change(ctx)
        pointer == Len(with_out)
        with_change == Append(with_out, TxOut(c.rune_btc_change, p.rune_address))
        runestone == [edicts |-> edicts, pointer |-> pointer]
    IN  [c EXCEPT !.outputs =
                     [with_change EXCEPT ![1].runestone = <<runestone>>]]

\* the service fee outputs of build_multi_asset_tx
set_service_fee_outputs(ctx, service_fee) ==
    IF ctx.params.fee_precent = None THEN ctx
    ELSE LET am == service_fee \div Len(ServiceDestinations)
         IN  [ctx EXCEPT !.outputs =
                 @ \o [i \in DOMAIN ServiceDestinations |->
                          TxOut(am, ServiceDestinations[i])]]

\* f64::round of n / d for n, d > 0: to the nearest, halves away from zero
RoundDiv(n, d) == (2 * n + d) \div (2 * d)

\* the service fee of build_multi_asset_tx (fee_precent drawn from whole
\* percentages), 0 when tx_params.service_fee is None
set_service_fee(btc_amount, fee_precent) ==
    IF fee_precent = None THEN 0
    ELSE LET service_fee == RoundDiv(btc_amount * fee_precent, 100)
         IN  IF service_fee < SERVICE_FEE_THRESHOLD THEN SERVICE_FEE_MIN
             ELSE service_fee

\* build_multi_asset_tx returns, Ok or Err, or unwinds from a panic: the write
\* guard of the cache is dropped
ReturnBuild(b, ctx, pc_after) ==
    /\ build' = [build EXCEPT ![b] = [ctx EXCEPT !.pc = pc_after]]
    /\ cache_writer' = ""

\* build_multi_asset_tx takes the write guard of the cache and reads the
\* locked outpoints of the input addresses
BuildStart(b) ==
    /\ build[b].pc = "idle" /\ cache_writer = ""
    /\ \E tx_params \in TxParamsSet :
          \/ LET used_btc_utxos == get_locked_utxos(tx_params.btc_address)
                 more_btc_utxos ==
                     IF tx_params.btc_address # tx_params.fee_address
                     THEN get_locked_utxos(tx_params.btc_address) ELSE {}
                 used_runes_utxos == get_locked_utxos(tx_params.rune_address)
             IN  /\ build' = [build EXCEPT ![b] =
                                [NewCtx EXCEPT
                                   !.pc = "runes", !.params = tx_params,
                                   !.used_btc_utxos =
                                       used_btc_utxos \cup more_btc_utxos
                                         \cup used_runes_utxos]]
                 /\ cache_writer' = b
          \/ ReturnBuild(b, [NewCtx EXCEPT !.params = tx_params], "failed")
    /\ UNCHANGED <<wallet_runes, wallet_btc, locked_utxos>>
    /\ PsbtUnchanged

\* the rune inputs and outputs: collect_runes_utxo, the inputs, get_rune
BuildRunes(b) ==
    /\ build[b].pc = "runes"
    /\ LET ctx == build[b]
           address == ctx.params.rune_address
           runes_utxo == collect_runes_utxo(address, ctx.params.rune_amount,
                                            ctx.used_btc_utxos)
           with_inputs == set_runes_inputs(ctx, address, runes_utxo.result, 1, 0)
           rune == get_rune(Store, ctx.params.rune_name)
       IN  \/ /\ runes_utxo.ok /\ rune # {}
              /\ build' = [build EXCEPT ![b] =
                             [set_runes_outputs(with_inputs, Only(rune))
                                 EXCEPT !.pc = "btc"]]
              /\ UNCHANGED cache_writer
           \* rune_btc_in_amount - RUNES_OUT_VALUE below zero in a build with
           \* overflow checks
           \/ /\ runes_utxo.ok
              /\ with_inputs.rune_btc_in_amount < RUNES_OUT_VALUE
              /\ ReturnBuild(b, with_inputs, "panicked")
           \/ ReturnBuild(b, ctx, "failed")
    /\ UNCHANGED <<wallet_runes, wallet_btc, locked_utxos>>
    /\ PsbtUnchanged

\* get_fee, then add_btc_to_tx for the amount and the fee, from one address or
\* from two
BuildBtc(b) ==
    /\ build[b].pc = "btc"
    /\ LET ctx == build[b]
           p == ctx.params
       IN  \/ \E fee \in FeeChoices :
                 LET service_fee == set_service_fee(p.btc_amount, p.fee_precent)
                     total_fee == fee + service_fee + ctx.btc_extra_amount
                     c0 == set_service_fee_outputs(ctx, service_fee)
                     btc_output == <<TxOut(p.btc_amount, p.btc_out_address)>>
                     r0 == IF p.btc_address = p.fee_address
                          THEN add_btc_to_tx(c0, p.btc_address, btc_output,
                                             p.btc_amount + total_fee)
                          ELSE LET r1 == add_btc_to_tx(c0, p.btc_address,
                                                       btc_output,
                                                       p.btc_amount)
                               IN  IF r1.ok
                                   THEN add_btc_to_tx(r1.ctx, p.fee_address,
                                                      <<>>, total_fee)
                                   ELSE r1
                     r == [r0 EXCEPT !.ctx.service_fee = service_fee,
                                     !.ctx.fee = fee]
                 IN  IF r.ok
                     THEN /\ build' = [build EXCEPT ![b] =
                                         [r.ctx EXCEPT !.pc = "psbt"]]
                          /\ UNCHANGED cache_writer
                     ELSE ReturnBuild(b, ctx, "failed")
           \/ ReturnBuild(b, ctx, "failed")
    /\ UNCHANGED <<wallet_runes, wallet_btc, locked_utxos>>
    /\ PsbtUnchanged

\* the PSBT is made from the tx and returned; no outpoint of
\* new_used_btc_utxos is written to the cache
BuildFinish(b) ==
    /\ build[b].pc = "psbt"
    /\ ReturnBuild(b, build[b], "done")
    /\ UNCHANGED <<wallet_runes, wallet_btc, locked_utxos>>
    /\ PsbtUnchanged

NextPsbt ==
    \/ \E b \in BuildIds : BuildStart(b)
    \/ \E b \in BuildIds : BuildRunes(b)
    \/ \E b \in BuildIds : BuildBtc(b)
    \/ \E b \in BuildIds : BuildFinish(b)

SpecPsbt == InitPsbt /\ [][NextPsbt]_vars

\* the outpoints a build has selected as inputs
BuildInputs(b) ==
    {build[b].runes_inputs[i] : i \in 1..Len(build[b].runes_inputs)}
       \cup {build[b].btc_inputs[i] : i \in 1..Len(build[b].btc_inputs)}

\* C20: two builds that have returned a PSBT against the same wallets have
\* no input outpoint in common
C20_BuildsSelectDistinctOutpoints ==
    \A b1, b2 \in BuildIds :
        (b1 # b2 /\ build[b1].pc = "done" /\ build[b2].pc = "done")
           => BuildInputs(b1) \cap BuildInputs(b2) = {}

\* the outpoints the cache holds as locked under the three input addresses
\* of a build
LockedForBuild(b) ==
    LET p == build[b].params
    IN  get_locked_utxos(p.rune_address) \cup get_locked_utxos(p.btc_address)
           \cup get_locked_utxos(p.fee_address)

\* C21: the lock set a build starts from is the union of the outpoints locked
\* under its rune input, btc input and fee input addresses, and no input of
\* the PSBT it returns is in that union
C21_NoLockedOutpointSelected ==
    \A b \in BuildIds :
        /\ build[b].pc = "runes" => build[b].used_btc_utxos = LockedForBuild(b)
        /\ build[b].pc = "done" => BuildInputs(b) \cap LockedForBuild(b) = {}

\* a build that has set its rune inputs and outputs
RunesSet(b) == build[b].pc \in {"btc", "psbt", "done"}

\* the rune amounts of a sequence of rune utxos, as a sum that does not wrap
RECURSIVE RuneAmountSum(_)
RuneAmountSum(utxos) ==
    IF utxos = <<>> THEN 0 ELSE Head(utxos).amount + RuneAmountSum(Tail(utxos))

\* C37: for a build about to select its rune inputs, collect_runes_utxo ends
\* within the pages of the address's rows and one more; when it succeeds it
\* returns rows of that address, each once, none of them in the used set and
\* none of amount 0, whose amounts sum to the requested amount or more; it
\* fails only when the rows outside the used set do not hold the amount; the
\* rune inputs of a build are the outpoints it returned
C37_RuneSelectionTerminates ==
    \A b \in BuildIds :
        LET ctx == build[b]
            rows == wallet_runes[ctx.params.rune_address]
            free == SelectSeq(rows, LAMBDA u : u.op \notin ctx.used_btc_utxos)
        IN  /\ ctx.pc = "runes" =>
                 LET r == collect_runes_utxo(ctx.params.rune_address,
                                             ctx.params.rune_amount,
                                             ctx.used_btc_utxos)
                 IN  /\ r.offset <= Len(rows) + RUNES_PAGE
                     /\ r.ok =>
                          /\ \A i \in DOMAIN r.result :
                                /\ \E j \in DOMAIN rows : rows[j] = r.result[i]
                                /\ r.result[i].op \notin ctx.used_btc_utxos
                                /\ r.result[i].amount > 0
                                /\ \A j \in DOMAIN r.result :
                                      i # j => r.result[i].op # r.result[j].op
                          /\ RuneAmountSum(r.result) >= ctx.params.rune_amount
                     /\ ~r.ok => RuneAmountSum(free) < ctx.params.rune_amount
            /\ RunesSet(b) =>
                 LET picked == SelectSeq(rows, LAMBDA u :
                                  \E i \in DOMAIN ctx.runes_inputs :
                                     ctx.runes_inputs[i] = u.op)
                 IN  /\ Len(picked) = Len(ctx.runes_inputs)
                     /\ \A i \in DOMAIN picked :
                           picked[i].op
                              \notin get_locked_utxos(ctx.params.rune_address)
                     /\ RuneAmountSum(picked) >= ctx.params.rune_amount

\* C37 witness: the first page holds a locked row and a row of amount 0, and
\* the build took the row of the second page
C37_Witness ==
    \E b \in BuildIds :
        /\ RunesSet(b) /\ build[b].runes_inputs = <<3>>
        /\ 1 \in locked_utxos["a1"]
        /\ Len(wallet_runes["a1"]) > RUNES_PAGE

\* C38: in every PSBT a build returns, output 0 is worth 0 and carries the
\* runestone with the one edict {id of the stored rune, rune_amount, output 1}
\* and pointer 2, output 1 pays 600 sats to the rune output address and
\* output 2 pays the rune input address
C38_RunestoneLayout ==
    \A b \in BuildIds :
        build[b].pc = "done" =>
            LET p == build[b].params
                outs == build[b].outputs
                rune == Only({r \in runes : r.rune = p.rune_name})
            IN  /\ Len(outs) >= 3
                /\ outs[1].value = 0
                /\ outs[1].runestone =
                      <<[edicts |-> <<[id |-> <<rune.block, rune.tx_id>>,
                                       amount |-> p.rune_amount,
                                       output |-> 1]>>,
                         pointer |-> 2]>>
                /\ outs[2].value = 600 /\ outs[2].address = p.rune_out_address
                /\ outs[2].runestone = <<>>
                /\ outs[3].address = p.rune_address /\ outs[3].runestone = <<>>
                /\ \A i \in DOMAIN outs : i > 1 => outs[i].runestone = <<>>

\* C38 witness: a returned PSBT with the three rune outputs, a service fee
\* output, the btc output and a btc change output
C38_Witness ==
    \E b \in BuildIds :
        /\ build[b].pc = "done" /\ Len(build[b].outputs) >= 6
        /\ build[b].params.rune_amount = 2

\* the value in sats of an outpoint of the wallets
OutpointValue(op) ==
    LET rows == UNION {{wallet_btc[a][i] : i \in DOMAIN wallet_btc[a]} :
                          a \in Addresses}
    IN  (CHOOSE u \in rows : u.op = op).amount
RECURSIVE InputsValue(_)
InputsValue(ops) ==
    IF ops = <<>> THEN 0 ELSE OutpointValue(Head(ops)) + InputsValue(Tail(ops))
RECURSIVE OutputsValue(_)
OutputsValue(outs) ==
    IF outs = <<>> THEN 0 ELSE Head(outs).value + OutputsValue(Tail(outs))

\* C39: in every PSBT a build returns, with the btc amount and the fee taken
\* from one address or from two, the inputs are worth at least the outputs
\* and the fee (fee_rate * vsize * 2) more than them
C39_InputsCoverOutputsAndFee ==
    \A b \in BuildIds :
        build[b].pc = "done" =>
            LET in == InputsValue(build[b].runes_inputs \o build[b].btc_inputs)
                out == OutputsValue(build[b].outputs)
            IN  /\ out <= in
                /\ in - out >= build[b].fee

\* C22: the rune change output is worth the value of the rune inputs less
\* 600 when that is 600 or more and 600 otherwise, btc_extra_amount is what
\* was added to reach 600, and no build ends in the subtraction
C22_RuneChangeValue ==
    \A b \in BuildIds :
        /\ build[b].pc # "panicked"
        /\ RunesSet(b) =>
             LET left == build[b].rune_btc_in_amount - 600
             IN  /\ build[b].rune_btc_change = IF left >= 600 THEN left ELSE 600
                 /\ build[b].btc_extra_amount
                       = IF left >= 600 THEN 0 ELSE 600 - left

\* C23: with a service fee configured, the service fee of a build is the
\* larger of the rounded percentage of btc_amount and 1000
C23_ServiceFeeFloor ==
    \A b \in BuildIds :
        (build[b].pc \in {"psbt", "done"} /\ build[b].params.fee_precent # None)
           => LET p == build[b].params
                  rounded == (2 * p.btc_amount * p.fee_precent + 100) \div 200
              IN  build[b].service_fee = Max({rounded, 1000})

\* --------------------------------------------------- the etching tx builder
\* runes_txs::COMMITMENT_OUT_VALUE
COMMITMENT_OUT_VALUE == 100000
MaxUtxos == 3       \* funding utxos handed to create_commitment_tx
UtxoValues == {50000, 100001, 150000}
\* fee = fee_rate * tx.vsize() * SIG_GROW_K, as estimated for the tx
CommitFees == {0, 1000}
NoCommitTx == [result |-> "none", inputs |-> <<>>, outputs |-> <<>>]

InitCommit ==
    /\ commit_args \in [etchings : {1, 2},
                        utxo : UNION {[1..n -> UtxoValues] : n \in 0..MaxUtxos},
                        fee : CommitFees]
    /\ commit_tx = NoCommitTx
    /\ wallet_runes = <<>> /\ wallet_btc = <<>> /\ locked_utxos = <<>>
    /\ cache_writer = "" /\ build = <<>>
    /\ btc_chain = <<>> /\ btc_utxos = EmptyBag /\ btc_watchlist = <<>>
    /\ btc_balances = <<>> /\ btc_run = <<>>
    /\ stop_signal = <<>> /\ stop_tasks = <<>> /\ stop_tip = 0
    /\ InitStore /\ TxIdle /\ LoopIdle /\ WdIdle /\ height = 0
    /\ disable_rune_log = FALSE /\ filter_runes = FALSE
    /\ runes_ids_watchlist = {}

RECURSIVE commitment_inputs(_, _, _, _)
\* the funding loop of create_commitment_tx: utxos are added in order until
\* the value gathered exceeds out_amount
commitment_inputs(utxo, i, out_amount, acc) ==
    IF i > Len(utxo) \/ SeqSum(acc) > out_amount THEN acc
    ELSE commitment_inputs(utxo, i + 1, out_amount, Append(acc, utxo[i]))

\* RunesTxBuilder::create_commitment_tx in a build that wraps on overflow: one
\* output of commitment_value per etching, then the change
create_commitment_tx(etchings, utxo, commitment_value, fee) ==
    LET out_amount == etchings * commitment_value
        inputs == commitment_inputs(utxo, 1, out_amount, <<>>)
        in_value == SeqSum(inputs)
        change_amount == WrapSub64(WrapSub64(in_value, out_amount), fee)
    IN  [result |-> "returned", inputs |-> inputs,
         outputs |-> [i \in 1..etchings |-> commitment_value]
                        \o <<change_amount>>]

\* whether `in_value - out_amount` or `in_value - out_amount - fee` goes below
\* zero in create_commitment_tx
commitment_underflows(etchings, utxo, commitment_value, fee) ==
    LET out_amount == etchings * commitment_value
        in_value == SeqSum(commitment_inputs(utxo, 1, out_amount, <<>>))
    IN  in_value < out_amount + fee

\* the etcher calls create_commitment_tx on the utxos of its address
CreateCommitmentTx ==
    /\ commit_tx.result = "none"
    /\ LET a == commit_args
           tx == create_commitment_tx(a.etchings, a.utxo, COMMITMENT_OUT_VALUE,
                                      a.fee)
       IN  \/ commit_tx' = tx
           \* the subtraction panics in a build with overflow checks
           \/ /\ commitment_underflows(a.etchings, a.utxo, COMMITMENT_OUT_VALUE,
                                       a.fee)
              /\ commit_tx' = [NoCommitTx EXCEPT !.result = "panicked"]
    /\ UNCHANGED <<commit_args, storeVars, configVars, txVars, loopVars, wdVars,
                   psbtVars, btcVars, stopVars>>

NextCommit == CreateCommitmentTx

SpecCommit == InitCommit /\ [][NextCommit]_vars

\* C25: a create_commitment_tx call on utxos that do not cover the commitment
\* outputs and the fee ends with InsufficientFunds, and a transaction it
\* returns has outputs worth no more than its inputs less the fee
C25_InsufficientFundsFails ==
    commit_tx.result # "none"
      => /\ SeqSum(commit_args.utxo)
               < commit_args.etchings * 100000 + commit_args.fee
              => commit_tx.result = "InsufficientFunds"
         /\ commit_tx.result = "returned"
              => SeqSum(commit_tx.outputs) + commit_args.fee
                    <= SeqSum(commit_tx.inputs)

\* ------------------------------------------------------------------
\* The BTC indexer on the data it keeps: btc_utxos rows, the stored balance
\* of each watched address and BtcIndexCache
\* ------------------------------------------------------------------
MaxBtcBlocks == 3      \* blocks the node mines
MaxBtcRestarts == 1    \* restarts of the indexer process
MaxBtcFailures == 1    \* blocks during which a store call fails

\* addresses with a btc_balances row, and a script that is not watched
Watched == {"a1"}
BtcScripts == Watched \cup {"x"}
BtcValues == {1, 2}

\* the transactions of a chain, and the outpoints no transaction spends
ChainTxs(chain) == UNION {{chain[h][i] : i \in 1..Len(chain[h])} : h \in 1..Len(chain)}
ChainUnspent(chain) ==
    {<<tx.txid, v>> : tx \in ChainTxs(chain), v \in {0}}
      \ UNION {{tx.ins[i] : i \in 1..Len(tx.ins)} : tx \in ChainTxs(chain)}

\* the blocks the node can mine at a height: one transaction with one output
\* and at most one input, which spends an outpoint nothing spent
BlockMenu(chain) ==
    {<<[txid |-> Len(chain) + 1, ins |-> ins,
        outs |-> <<[script |-> s, value |-> v]>>]>> :
        ins \in {<<>>} \cup {<<o>> : o \in ChainUnspent(chain)},
        s \in BtcScripts, v \in BtcValues}

\* the store and the cache as one value the handlers thread through
BtcState == [utxos |-> btc_utxos, watchlist |-> btc_watchlist,
             balances |-> btc_balances]

\* store calls of handle_btc_payments that may fail while a block is indexed
BtcFailKinds == {"get_btc_utxo", "spent_btc_utxo", "update_btc_balance",
                 "insert_btc_utxo"}

\* Repo::get_btc_utxo: the rows at (tx_hash, output_n), spent or not
get_btc_utxo(st, tx_hash, vout) ==
    {r \in DOMAIN st.utxos : r.tx_hash = tx_hash /\ r.output_n = vout}

\* Repo::spent_btc_utxo: UPDATE ... SET spend = true on every such row
db_spent_btc_utxo(st, tx_hash, vout) ==
    LET f(r) == IF r.tx_hash = tx_hash /\ r.output_n = vout
                THEN [r EXCEPT !.spend = TRUE] ELSE r
        img == {f(r) : r \in DOMAIN st.utxos}
    IN  [st EXCEPT !.utxos =
            [x \in img |-> BagSum({r \in DOMAIN st.utxos : f(r) = x}, @)]]

\* Repo::update_btc_balance: UPDATE, no row is no change
update_btc_balance(st, address, balance) ==
    IF address \in DOMAIN st.watchlist
    THEN [st EXCEPT !.watchlist[address] = balance] ELSE st

\* Repo::insert_btc_utxo: INSERT of a row with a fresh id
insert_btc_utxo(st, row) == [st EXCEPT !.utxos = BagAdd(@, row)]

\* BtcIndexCache::decrease_btc_balance, increase_btc_balance
decrease_btc_balance(st, address, value) ==
    [st EXCEPT !.balances = MapSet(@, address, MapGet(@, address) - value)]
increase_btc_balance(st, address, value) ==
    [st EXCEPT !.balances = MapSet(@, address, MapGet(@, address) + value)]

\* BtcIndexer::spent_btc_utxo on one input; fail names the store call that
\* fails during this block
spent_btc_utxo(st, input, fail) ==
    LET rows == get_btc_utxo(st, input[1], input[2])
    IN  IF rows = {} \/ fail = "get_btc_utxo" THEN st
        ELSE LET utxo == CHOOSE r \in rows : TRUE
                 s1 == IF fail = "spent_btc_utxo" THEN st
                       ELSE db_spent_btc_utxo(st, input[1], input[2])
                 s2 == decrease_btc_balance(s1, utxo.address, utxo.amount)
             IN  IF fail = "update_btc_balance" THEN s2
                 ELSE update_btc_balance(s2, utxo.address,
                                         s2.balances[utxo.address])

RECURSIVE btc_inputs_loop(_, _, _, _)
btc_inputs_loop(st, ins, i, fail) ==
    IF i > Len(ins) THEN st
    ELSE btc_inputs_loop(spent_btc_utxo(st, ins[i], fail), ins, i + 1, fail)

\* one output of handle_btc_payments: a watched script raises the cached
\* balance, which is stored, and a row is inserted
btc_output(st, tx, block, vout, fail) ==
    LET out == tx.outs[vout + 1]
    IN  IF out.script \notin Watched THEN st
        ELSE LET s1 == increase_btc_balance(st, out.script, out.value)
                 s2 == IF fail = "update_btc_balance" THEN s1
                       ELSE update_btc_balance(s1, out.script,
                                               s1.balances[out.script])
                 row == [block |-> block, tx_hash |-> tx.txid,
                         output_n |-> vout, address |-> out.script,
                         amount |-> out.value, spend |-> FALSE]
             IN  IF fail = "insert_btc_utxo" THEN s2
                 ELSE insert_btc_utxo(s2, row)

RECURSIVE btc_outputs_loop(_, _, _, _, _)
btc_outputs_loop(st, tx, block, vout, fail) ==
    IF vout >= Len(tx.outs) THEN st
    ELSE btc_outputs_loop(btc_output(st, tx, block, vout, fail), tx, block,
                          vout + 1, fail)

\* BtcIndexer::handle_btc_payments: the inputs, then the outputs
handle_btc_payments(st, tx, block, fail) ==
    btc_outputs_loop(btc_inputs_loop(st, tx.ins, 1, fail), tx, block, 0, fail)

RECURSIVE btc_index_block(_, _, _, _, _)
\* BtcIndexer::index_block: handle_btc_payments on each transaction in order
btc_index_block(st, txdata, block, i, fail) ==
    IF i > Len(txdata) THEN st
    ELSE btc_index_block(handle_btc_payments(st, txdata[i], block, fail),
                         txdata, block, i + 1, fail)

InitBtc ==
    /\ btc_chain = <<>>
    /\ btc_utxos = EmptyBag
    /\ btc_watchlist = [a \in Watched |-> 0]
    /\ btc_balances = [a \in Watched |-> 0]
    /\ btc_run = [pc |-> "loop", cursor |-> 0, current_block |-> 1,
                  restarts |-> 0, failures |-> 0]
    /\ stop_signal = <<>> /\ stop_tasks = <<>> /\ stop_tip = 0
    /\ wallet_runes = <<>> /\ wallet_btc = <<>> /\ locked_utxos = <<>>
    /\ cache_writer = "" /\ build = <<>>
    /\ commit_args = <<>> /\ commit_tx = <<>>
    /\ InitStore /\ TxIdle /\ LoopIdle /\ WdIdle /\ height = 0
    /\ disable_rune_log = FALSE /\ filter_runes = FALSE
    /\ runes_ids_watchlist = {}

BtcUnchanged ==
    UNCHANGED <<storeVars, configVars, txVars, loopVars, wdVars, psbtVars,
                commitVars, stopVars>>

\* the node mines a block
BtcNewBlock ==
    /\ Len(btc_chain) < MaxBtcBlocks
    /\ \E block \in BlockMenu(btc_chain) : btc_chain' = Append(btc_chain, block)
    /\ UNCHANGED <<btc_utxos, btc_watchlist, btc_balances, btc_run>>
    /\ BtcUnchanged

\* run: index_block(current_block) once the tip is past current_block; a
\* failing store call is logged and the block goes on
BtcIndexBlock ==
    /\ btc_run.pc = "loop"
    /\ Len(btc_chain) > btc_run.current_block
    /\ \E fail \in {"none"} \cup
                   (IF btc_run.failures < MaxBtcFailures THEN BtcFailKinds ELSE {}) :
          LET st == btc_index_block(BtcState, btc_chain[btc_run.current_block],
                                    btc_run.current_block, 1, fail)
          IN  /\ btc_utxos' = st.utxos
              /\ btc_watchlist' = st.watchlist
              /\ btc_balances' = st.balances
              /\ btc_run' = [btc_run EXCEPT !.pc = "save",
                               !.failures = IF fail = "none" THEN @ ELSE @ + 1]
    /\ UNCHANGED btc_chain
    /\ BtcUnchanged

\* run: update_last_indexed_block (an error is logged), current_block += 1
BtcSaveCursor ==
    /\ btc_run.pc = "save"
    /\ \/ btc_run' = [btc_run EXCEPT !.pc = "loop",
                        !.cursor = btc_run.current_block,
                        !.current_block = @ + 1]
       \/ /\ btc_run.failures < MaxBtcFailures
          /\ btc_run' = [btc_run EXCEPT !.pc = "loop", !.current_block = @ + 1,
                           !.failures = @ + 1]
    /\ UNCHANGED <<btc_chain, btc_utxos, btc_watchlist, btc_balances>>
    /\ BtcUnchanged

\* the process ends and run starts again: the cursor is read, init_state
\* loads the stored balances, current_block = first_block + 1
BtcRestart ==
    /\ btc_run.restarts < MaxBtcRestarts
    /\ btc_balances' = btc_watchlist
    /\ btc_run' = [btc_run EXCEPT !.pc = "loop", !.restarts = @ + 1,
                     !.current_block =
                        first_block(btc_run.cursor,
                                    starting_height("btc_indexer")) + 1]
    /\ UNCHANGED <<btc_chain, btc_utxos, btc_watchlist>>
    /\ BtcUnchanged

NextBtc ==
    \/ BtcNewBlock
    \/ BtcIndexBlock
    \/ BtcSaveCursor
    \/ BtcRestart

SpecBtc == InitBtc /\ [][NextBtc]_vars

\* sat_amount of the unspent btc_utxos rows of an address
UnspentBtcSum(a) ==
    AmountSum(btc_utxos, {r \in DOMAIN btc_utxos : r.address = a /\ ~r.spend})

\* C26: whatever blocks the BTC indexer has processed, a block processed
\* again after a restart included, the stored balance of every watched address
\* is the sum of the amounts of its unspent btc_utxos rows
C26_BalanceIsUnspentSum ==
    \A a \in Watched : btc_watchlist[a] = UnspentBtcSum(a)

\* ------------------------------------------------------------------
\* The run loops of the two indexers and of the watchdog, and the
\* cancellation token their process hands them
\* ------------------------------------------------------------------
MaxStopTip == 2        \* blocks the node comes to hold

\* the tasks main spawns, and the process (with its token) each belongs to
TaskIds == IndexerIds \cup {"tx_watchdog"}
Processes == {"run_indexer", "run_api_server"}
ProcessOf(t) == IF t = "tx_watchdog" THEN "run_api_server" ELSE "run_indexer"
\* positions at a tokio::select! on a sleep: 10 s, 10 ms, 30 s
SleepPcs == {"idle", "wait", "sleep"}

\* tokio::select! { sleep => continue, stop_signal.cancelled() => break }:
\* the branches that are ready when the task is polled
select_sleep_only(cancelled, fired) ==
    IF fired THEN {"continue"} ELSE {}
select(cancelled, fired) ==
    (IF fired THEN {"continue"} ELSE {}) \cup (IF cancelled THEN {"break"} ELSE {})

\* a task arrives at a select: it is polled at once, with the timer just set
EnterSelect(t, sleep_pc) ==
    IF "break" \in select(stop_signal[ProcessOf(t)], FALSE)
    THEN [stop_tasks[t] EXCEPT !.pc = "off"]
    ELSE [stop_tasks[t] EXCEPT !.pc = sleep_pc, !.fired = FALSE]

InitStop ==
    /\ stop_signal = [p \in Processes |-> FALSE]
    /\ stop_tip = 0
    /\ stop_tasks = [t \in TaskIds |->
          [pc |-> IF t = "tx_watchdog" THEN "job" ELSE "loop", fired |-> FALSE,
           current_block |-> IF t = "tx_watchdog" THEN 0
                             ELSE starting_height(t) + 1]]
    /\ wallet_runes = <<>> /\ wallet_btc = <<>> /\ locked_utxos = <<>>
    /\ cache_writer = "" /\ build = <<>>
    /\ commit_args = <<>> /\ commit_tx = <<>>
    /\ btc_chain = <<>> /\ btc_utxos = EmptyBag /\ btc_watchlist = <<>>
    /\ btc_balances = <<>> /\ btc_run = <<>>
    /\ InitStore /\ TxIdle /\ LoopIdle /\ WdIdle /\ height = 0
    /\ disable_rune_log = FALSE /\ filter_runes = FALSE
    /\ runes_ids_watchlist = {}

StopUnchanged ==
    UNCHANGED <<storeVars, configVars, txVars, loopVars, wdVars, psbtVars,
                commitVars, btcVars>>

\* main: cancel.cancel()
Cancel(p) ==
    /\ ~stop_signal[p]
    /\ stop_signal' = [stop_signal EXCEPT ![p] = TRUE]
    /\ UNCHANGED <<stop_tasks, stop_tip>>
    /\ StopUnchanged

\* the node receives a block
StopNewBlock ==
    /\ stop_tip < MaxStopTip
    /\ stop_tip' = stop_tip + 1
    /\ UNCHANGED <<stop_signal, stop_tasks>>
    /\ StopUnchanged

\* head of an indexer's loop: get_block_count (an error returns), then the
\* 10 s select when best_block = current_block, index_block otherwise
StopPoll(t) ==
    /\ t \in IndexerIds /\ stop_tasks[t].pc = "loop"
    /\ \/ stop_tasks' = [stop_tasks EXCEPT ![t].pc = "off"]
       \/ stop_tasks' = [stop_tasks EXCEPT ![t] =
              IF stop_tip = stop_tasks[t].current_block
              THEN EnterSelect(t, "idle")
              ELSE [@ EXCEPT !.pc = "index"]]
    /\ UNCHANGED <<stop_signal, stop_tip>>
    /\ StopUnchanged

\* index_block(current_block): Some advances current_block, None (the block
\* is not there or a fetch failed) does not; then the 10 ms select
StopIndexBlock(t) ==
    /\ t \in IndexerIds /\ stop_tasks[t].pc = "index"
    /\ \E some \in {FALSE} \cup
                   (IF stop_tasks[t].current_block <= stop_tip THEN {TRUE} ELSE {}) :
          stop_tasks' = [stop_tasks EXCEPT ![t] =
              [EnterSelect(t, "wait") EXCEPT !.current_block =
                  IF some THEN @ + 1 ELSE @]]
    /\ UNCHANGED <<stop_signal, stop_tip>>
    /\ StopUnchanged

\* the watchdog's do_job, then the 30 s select
StopDoJob(t) ==
    /\ t = "tx_watchdog" /\ stop_tasks[t].pc = "job"
    /\ stop_tasks' = [stop_tasks EXCEPT ![t] = EnterSelect(t, "sleep")]
    /\ UNCHANGED <<stop_signal, stop_tip>>
    /\ StopUnchanged

\* the sleep of a pending select elapses
TimerFires(t) ==
    /\ stop_tasks[t].pc \in SleepPcs /\ ~stop_tasks[t].fired
    /\ stop_tasks' = [stop_tasks EXCEPT ![t].fired = TRUE]
    /\ UNCHANGED <<stop_signal, stop_tip>>
    /\ StopUnchanged

\* a pending select is polled again: one of its ready branches runs
Wake(t) ==
    /\ stop_tasks[t].pc \in SleepPcs
    /\ \E branch \in select(stop_signal[ProcessOf(t)], stop_tasks[t].fired) :
          stop_tasks' = [stop_tasks EXCEPT ![t].pc =
              IF branch = "break" THEN "off"
              ELSE IF t = "tx_watchdog" THEN "job" ELSE "loop",
              ![t].fired = FALSE]
    /\ UNCHANGED <<stop_signal, stop_tip>>
    /\ StopUnchanged

TaskStep(t) ==
    StopPoll(t) \/ StopIndexBlock(t) \/ StopDoJob(t) \/ Wake(t)

NextStop ==
    \/ \E p \in Processes : Cancel(p)
    \/ StopNewBlock
    \/ \E t \in TaskIds : StopPoll(t)
    \/ \E t \in TaskIds : StopIndexBlock(t)
    \/ \E t \in TaskIds : StopDoJob(t)
    \/ \E t \in TaskIds : TimerFires(t)
    \/ \E t \in TaskIds : Wake(t)

\* the runtime polls every task that is ready
SpecStop ==
    InitStop /\ [][NextStop]_vars /\ \A t \in TaskIds : WF_vars(TaskStep(t))

\* C27: once its token is cancelled, a loop that reaches a sleep point ends
\* there instead of sleeping, a loop that has ended starts nothing more, and
\* every loop does end
C27_CancelledLoopsStopAtSleepPoint ==
    /\ [][\A t \in TaskIds :
            /\ ( /\ stop_signal[ProcessOf(t)]
                 /\ stop_tasks[t].pc \notin SleepPcs
                 /\ stop_tasks'[t].pc # stop_tasks[t].pc )
               => stop_tasks'[t].pc \notin SleepPcs
            /\ stop_tasks[t].pc = "off" => stop_tasks'[t] = stop_tasks[t]]_vars
    /\ \A t \in TaskIds :
          stop_signal[ProcessOf(t)] ~> (stop_tasks[t].pc = "off")

\* both tokens are cancelled and every loop has ended, the runes indexer
\* having indexed a block first
C27_Witness ==
    /\ \A p \in Processes : stop_signal[p]
    /\ \A t \in TaskIds : stop_tasks[t].pc = "off"
    /\ stop_tasks["rune_etchings"].current_block > starting_height("rune_etchings") + 1
====
